---- MODULE Spec2Model ----
(***************************************************************************)
(* MosaicBoard (src/index.tsx): the board mutation, automation,            *)
(* notification and visibility engine of the App component.                *)
(*                                                                         *)
(* Conventions.  Ids are integers: lists list-1..list-3 are 1..3, labels   *)
(* label-1..label-5 are 1..5, members member-1..member-3 are 1..3, and     *)
(* generateId() hands out fresh integers from idCounter.  Indices are the  *)
(* 0-based indices of the source; sequences are 1-based, so At(s, i) is    *)
(* s[i].  Texts are sequences of one-character strings.  Time is counted   *)
(* in half days, so that oneDay is 2.  A due date is                       *)
(* [hasTs, timestamp, completed]; hasTs = FALSE is the source's            *)
(* timestamp: null.                                                        *)
(***************************************************************************)
EXTENDS Integers, Sequences, FiniteSets, TLC

VARIABLES
    boardData,      \* useState<ListData[]>, index.tsx:2348
    cardCounter,    \* useState cardCounter, index.tsx:2527
    selectedCard,   \* useState selectedCard, index.tsx:2489
    notifications,  \* useState<NotificationData[]>, index.tsx:2496
    automations,    \* useState<Automations>, index.tsx:2504
    filters,        \* useState<Filters>, index.tsx:2490
    visibilityMap,  \* useMemo visibilityMap, index.tsx:2852
    storage,        \* localStorage 'mosaic-board-data'
    now,            \* Date.now()
    idCounter,      \* source of generateId()
    trace,          \* what the last handler did, in the order it did it
    created,        \* shortIds handed out by handleAddCard, this session
    assigned,       \* shortIds handed out by handleAddCard, all sessions
    steps,          \* number of user events so far
    lastOp,         \* the last user event and its arguments
    dueIn,          \* argument of getDueDateStatus (SpecDue)
    statusOut,      \* its result (SpecDue)
    storageFull,    \* localStorage.setItem throws (quota exceeded)
    persistLog,     \* what the persist effect did about failed writes, this session
    theme,          \* useTheme: the theme in effect
    themeStore,     \* localStorage 'mosaic.theme'
    themeFile,      \* the text of the last exported theme file, <<>> when none
    exportedTheme,  \* history: the theme when it was exported, and a reset since
    customCss,      \* useTheme: the custom CSS in effect, selector -> rules
    cssStore,       \* localStorage 'mosaic.customCss'
    customizer,     \* ElementCustomizerModal: isOpen, activeSelector, localCss
    cssAtOpen,      \* history: the custom CSS when the customizer was opened
    uploads         \* file reads started by the card modal, and what became of them

appearance == <<theme, themeStore, themeFile, exportedTheme, customCss, cssStore,
                customizer, cssAtOpen>>

vars == <<boardData, cardCounter, selectedCard, notifications, automations,
          filters, visibilityMap, storage, now, idCounter, trace, created,
          assigned, steps, lastOp, dueIn, statusOut, storageFull, persistLog,
          appearance, uploads>>

-----------------------------------------------------------------------------
(* Bounds *)

MaxSteps == 2
MaxDropSteps == 3
MaxIdSteps == 4
MaxBefore == 4
MaxInstant == 8
NowMin == 3
NowMax == 6
MaxTick == 2
MaxDepth == 3
MaxClock == 2
MaxClockSteps == 2
MaxApiSteps == 2
Beyond == 1
MaxRuleSteps == 2
MaxQuotaSteps == 2
MaxFileSteps == 3
MaxLegacySteps == 1
MaxNotifySteps == 2
MaxLogSteps == 2
MaxSetSteps == 2
MaxThemeSteps == 2
MaxWatchSteps == 2
MaxMoveSteps == 2
MaxTriggerSteps == 2
MaxShortId == 4
MaxShortIdSteps == 1
MaxCssSteps == 3
MaxUploads == 2

-----------------------------------------------------------------------------
(* Program constants *)

list1 == 1
list2 == 2
list3 == 3
label1 == 1
label2 == 2
label3 == 3
label4 == 4
label5 == 5
member1 == 1
member2 == 2
member3 == 3
noMembers == 0
noLabels == 0
GenBase == 10
NowInit == 10
OneDay == 2

\* CURRENT_USER_ID = availableMembers[0].id
CURRENT_USER_ID == member1

-----------------------------------------------------------------------------
(* Arrays and strings *)

At(s, i) == s[i + 1]

includes(s, x) == \E k \in DOMAIN s : s[k] = x

filterOut(s, x) == SelectSeq(s, LAMBDA y : y # x)

\* a removal that removes nothing
spliceRemoveNothing(s, i) == s

\* Array.prototype.splice(i, 1): the array without the element at index i
\* (unchanged when i is past the end)
spliceRemove(s, i) ==
    IF i < 0 \/ i >= Len(s) THEN s
    ELSE SubSeq(s, 1, i) \o SubSeq(s, i + 2, Len(s))

\* Array.prototype.splice(i, 0, x): x inserted at index i (at the end when
\* i is past the end)
spliceInsert(s, i, x) ==
    LET k == IF i > Len(s) THEN Len(s) ELSE IF i < 0 THEN 0 ELSE i
    IN  SubSeq(s, 1, k) \o <<x>> \o SubSeq(s, k + 1, Len(s))

replaceAt(s, i, x) == [s EXCEPT ![i + 1] = x]

lowerChar(c) ==
    CASE c = "A" -> "a"
      [] c = "B" -> "b"
      [] OTHER -> c

toLowerCase(s) == [k \in DOMAIN s |-> lowerChar(s[k])]

\* String.prototype.includes
strIncludes(s, q) ==
    \E k \in 0..(Len(s) - Len(q)) : SubSeq(s, k + 1, k + Len(q)) = q

-----------------------------------------------------------------------------
(* Due-date status *)

NoDue == [hasTs |-> FALSE, timestamp |-> 0, completed |-> FALSE]

Due(ts, c) == [hasTs |-> TRUE, timestamp |-> ts, completed |-> c]

getDueDateStatus(dueDate, t) ==
    IF ~dueDate.hasTs \/ dueDate.timestamp = 0 THEN "none"
    ELSE IF dueDate.completed THEN "complete"
    ELSE IF dueDate.timestamp < t THEN "overdue"
    ELSE IF dueDate.timestamp < t + OneDay THEN "due-soon"
    ELSE "none"

-----------------------------------------------------------------------------
(* Visibility *)

DefaultFilters == [query |-> <<>>, members |-> <<>>, labels |-> <<>>, dueDate |-> "any"]

\* a fast path that forgets the due-date filter
isFiltersActiveNoDue(f) ==
    Len(f.query) > 0 \/ Len(f.members) > 0 \/ Len(f.labels) > 0

isFiltersActive(f) ==
    Len(f.query) > 0 \/ Len(f.members) > 0 \/ Len(f.labels) > 0 \/ f.dueDate # "any"

cardVisible(card, f, t) ==
    LET query == toLowerCase(f.query)
        v1 == ~(Len(query) > 0
                /\ ~strIncludes(toLowerCase(card.text), query)
                /\ ~strIncludes(toLowerCase(card.description), query))
        v2 == IF v1 /\ Len(f.members) > 0
              THEN IF includes(f.members, noMembers)
                   THEN ~(Len(card.members) > 0)
                   ELSE \E k \in DOMAIN card.members : includes(f.members, card.members[k])
              ELSE v1
        v3 == IF v2 /\ Len(f.labels) > 0
              THEN IF includes(f.labels, noLabels)
                   THEN ~(Len(card.labels) > 0)
                   ELSE \E k \in DOMAIN card.labels : includes(f.labels, card.labels[k])
              ELSE v2
        v4 == IF v3 /\ f.dueDate # "any"
              THEN f.dueDate = getDueDateStatus(card.dueDate, t)
              ELSE v3
    IN  v4

allCards(board) ==
    UNION { { board[l].cards[k] : k \in DOMAIN board[l].cards } : l \in DOMAIN board }

cardIds(board) == { c.id : c \in allCards(board) }

RECURSIVE totalCards(_)
totalCards(board) ==
    IF board = <<>> THEN 0 ELSE Len(Head(board).cards) + totalCards(Tail(board))

cardById(board, id) == CHOOSE c \in allCards(board) : c.id = id

computeVisibility(board, f, t) ==
    IF ~isFiltersActive(f)
    THEN [id \in cardIds(board) |-> TRUE]
    ELSE [id \in cardIds(board) |-> cardVisible(cardById(board, id), f, t)]

-----------------------------------------------------------------------------
(* The handlers of App.  A handler runs to completion on a machine record  *)
(* m = [board, notifs, sel, ids, trace]: the lists it mutates in place,    *)
(* the notification feed behind setNotifications, the value handed to      *)
(* setSelectedCard, the id source, and the log of its steps.  The state    *)
(* variables selectedCard and automations are read as the handler's        *)
(* closure reads them: as they were when the event started.                *)

NoSel == [listIndex |-> -1, cardIndex |-> -1]

automationBot == -1

Ev(e, isAutomated, d) == [ev |-> e, auto |-> isAutomated, depth |-> d]

log(m, e, isAutomated, d) == [m EXCEPT !.trace = Append(@, Ev(e, isAutomated, d))]

createActivity(id, text, t) == [id |-> id, text |-> text, timestamp |-> t]

\* a feed that takes a new notification at its end
addNotificationLast(m, text, card, list, isAutomated, d) ==
    LET newNotification == [id |-> m.ids, text |-> text, cardId |-> card.id,
                            listId |-> list.id, timestamp |-> now, read |-> FALSE]
    IN  [m EXCEPT !.notifs = Append(@, newNotification),
                  !.ids = @ + 1,
                  !.trace = Append(@, Ev("notify", isAutomated, d))]

addNotification(m, text, card, list, isAutomated, d) ==
    LET newNotification == [id |-> m.ids, text |-> text, cardId |-> card.id,
                            listId |-> list.id, timestamp |-> now, read |-> FALSE]
    IN  [m EXCEPT !.notifs = <<newNotification>> \o @,
                  !.ids = @ + 1,
                  !.trace = Append(@, Ev("notify", isAutomated, d))]

\* seq.forEach(id => { if (id === CURRENT_USER_ID) addNotification(...) })
RECURSIVE notifyCurrentUser(_, _, _, _, _, _, _)
notifyCurrentUser(m, seq, text, card, list, isAutomated, d) ==
    IF seq = <<>> THEN m
    ELSE LET m1 == IF Head(seq) = CURRENT_USER_ID
                   THEN addNotification(m, text, card, list, isAutomated, d)
                   ELSE m
         IN  notifyCurrentUser(m1, Tail(seq), text, card, list, isAutomated, d)

\* updates.members.forEach: "You were added to ..." for the current user
RECURSIVE notifyAdded(_, _, _, _, _, _, _)
notifyAdded(m, seq, oldCard, updatedCard, list, isAutomated, d) ==
    IF seq = <<>> THEN m
    ELSE LET m1 == IF ~includes(oldCard.members, Head(seq)) /\ Head(seq) = CURRENT_USER_ID
                   THEN addNotification(m, <<"added", updatedCard.text>>, updatedCard, list, isAutomated, d)
                   ELSE m
         IN  notifyAdded(m1, Tail(seq), oldCard, updatedCard, list, isAutomated, d)

\* a diff that does not look at the completion flag
getWatchedUpdateTextNoFlag(oldCard, newCard) ==
    IF oldCard.description # newCard.description THEN "Description was updated"
    ELSE IF oldCard.dueDate.hasTs # newCard.dueDate.hasTs
            \/ oldCard.dueDate.timestamp # newCard.dueDate.timestamp
         THEN "Due date was changed"
    ELSE "null"

getWatchedUpdateText(oldCard, newCard) ==
    IF oldCard.description # newCard.description THEN "Description was updated"
    ELSE IF oldCard.dueDate.hasTs # newCard.dueDate.hasTs
            \/ oldCard.dueDate.timestamp # newCard.dueDate.timestamp
         THEN "Due date was changed"
    ELSE IF oldCard.dueDate.completed # newCard.dueDate.completed
         THEN IF newCard.dueDate.completed THEN "Due date was marked complete"
              ELSE "Due date was marked incomplete"
    ELSE "null"

\* { ...oldCard, ...updates }
mergeCard(oldCard, updates) ==
    [f \in DOMAIN oldCard |-> IF f \in DOMAIN updates THEN updates[f] ELSE oldCard[f]]

setCards(board, li, cards) == [board EXCEPT ![li + 1].cards = cards]

\* the first list holding the card, and the card's index in it; -1 if none
findListIndex(board, cardId) ==
    LET hit == { l \in DOMAIN board : \E k \in DOMAIN board[l].cards : board[l].cards[k].id = cardId }
    IN  IF hit = {} THEN -1 ELSE (CHOOSE l \in hit : \A l2 \in hit : l <= l2) - 1

findCardIndex(cards, cardId) ==
    LET hit == { k \in DOMAIN cards : cards[k].id = cardId }
    IN  IF hit = {} THEN -1 ELSE (CHOOSE k \in hit : \A k2 \in hit : k <= k2) - 1

\* boardData.findIndex(l => l.id === listId)
findListById(board, listId) ==
    LET hit == { l \in DOMAIN board : board[l].id = listId }
    IN  IF hit = {} THEN -1 ELSE (CHOOSE l \in hit : \A l2 \in hit : l <= l2) - 1

\* a matcher that forgets the card-move branch
triggerMetLabelOnly(rule, trigger) ==
    /\ rule.trigger.type = "label-add"
    /\ trigger.type = "label-add"
    /\ rule.trigger.labelId = trigger.labelId

triggerMet(rule, trigger) ==
    IF rule.trigger.type = "card-move" /\ trigger.type = "card-move"
    THEN rule.trigger.toListId = trigger.toListId
    ELSE IF rule.trigger.type = "label-add" /\ trigger.type = "label-add"
    THEN rule.trigger.labelId = trigger.labelId
    ELSE FALSE

\* a moveCard without its early return
isNoOpMoveNever(sourceListIndex, sourceCardIndex, destListIndex, destCardIndex) == FALSE

\* a trigger that names the list the card came from
cardMoveTriggerFrom(sourceList, destList) == [type |-> "card-move", toListId |-> sourceList.id]

\* moveCard: { type: 'card-move', toListId: destList.id }
cardMoveTrigger(sourceList, destList) == [type |-> "card-move", toListId |-> destList.id]

\* moveCard: if (sourceListIndex === destListIndex && sourceCardIndex === destCardIndex) return
isNoOpMove(sourceListIndex, sourceCardIndex, destListIndex, destCardIndex) ==
    sourceListIndex = destListIndex /\ sourceCardIndex = destCardIndex

\* a handleUpdateCard that notifies whoever made the change
updateNotifiesAlways(isAutomated) == TRUE

\* handleUpdateCard: if (!isAutomated) around the notifications
updateNotifies(isAutomated) == ~isAutomated

\* handleUpdateCard: if (!isAutomated) around the label-add triggers
updateEmitsTrigger(isAutomated) == ~isAutomated

\* moveCard: if (!isAutomated) around the activity entry and the notification
\* a moveCard that logs and notifies for automated moves too
moveNotifiesAlways(isAutomated) == TRUE

moveNotifies(isAutomated) == ~isAutomated

\* a moveCard that emits its trigger whoever made the move
moveEmitsTriggerAlways(isAutomated) == TRUE

\* moveCard: if (!isAutomated) around runAutomations
moveEmitsTrigger(isAutomated) == ~isAutomated

\* the value of an array read past its end, as a list entry
undefinedCard == [undefined |-> TRUE]

isUndefined(x) == "undefined" \in DOMAIN x

\* card.id where card may be undefined: undefinedId stands for the TypeError
\* that reading it raises
undefinedId == -2

hasList(board, listIndex) == listIndex \in 0..(Len(board) - 1)

hasCard(cards, cardIndex) == cardIndex \in 0..(Len(cards) - 1)

\* an uncaught TypeError: the handler stops here
throw(m, isAutomated, d) == log(m, "throw", isAutomated, d)

threw(m) == \E k \in DOMAIN m.trace : m.trace[k].ev = "throw"

RECURSIVE moveCard(_, _, _, _, _, _, _)
RECURSIVE handleUpdateCard(_, _, _, _, _, _)
RECURSIVE executeAutomationAction(_, _, _, _)
RECURSIVE runAutomations(_, _, _, _)
RECURSIVE runRules(_, _, _, _, _)
RECURSIVE runAddedLabels(_, _, _, _, _)

\* a pass that stops at the first matching rule
runRulesFirstOnly(m, rules, trigger, cardId, d) ==
    LET hit == { k \in DOMAIN rules : triggerMet(rules[k], trigger) }
    IN  IF hit = {} \/ cardId = undefinedId THEN m
        ELSE LET k == CHOOSE k \in hit : \A k2 \in hit : k <= k2
             IN  executeAutomationAction(log(m, "match", TRUE, d), rules[k].action, cardId, d)

runRules(m, rules, trigger, cardId, d) ==
    IF rules = <<>> THEN m
    ELSE LET rule == Head(rules)
             m1 == IF triggerMet(rule, trigger)
                   THEN IF cardId = undefinedId
                        THEN throw(log(m, "match", TRUE, d), TRUE, d)
                        ELSE executeAutomationAction(log(m, "match", TRUE, d), rule.action, cardId, d)
                   ELSE m
         IN  IF threw(m1) THEN m1 ELSE runRules(m1, Tail(rules), trigger, cardId, d)

\* d counts the runAutomations frames already on the stack
runAutomations(m, trigger, cardId, d) ==
    IF d >= MaxDepth THEN log(m, "overflow", TRUE, d + 1)
    ELSE runRules(log(m, "pass", TRUE, d + 1), automations.rules, trigger, cardId, d + 1)

runAddedLabels(m, addedLabels, cardId, isAutomated, d) ==
    IF addedLabels = <<>> THEN m
    ELSE runAddedLabels(
            runAutomations(log(m, "trigger", isAutomated, d),
                           [type |-> "label-add", labelId |-> Head(addedLabels)], cardId, d),
            Tail(addedLabels), cardId, isAutomated, d)

\* a filter that lets every label of the update through
addedLabelsAll(labels, oldCard) == labels

\* updates.labels.filter(l => !oldCard.labels.includes(l))
addedLabels(labels, oldCard) == SelectSeq(labels, LAMBDA l : ~includes(oldCard.labels, l))

handleUpdateCard(m, listIndex, cardIndex, updates, isAutomated, d) ==
    LET list == At(m.board, listIndex)
        oldCard == At(list.cards, cardIndex)
        updatedCard == mergeCard(oldCard, updates)
        m1 == IF updateNotifies(isAutomated) /\ "members" \in DOMAIN updates
              THEN notifyAdded(m, updates.members, oldCard, updatedCard, list, isAutomated, d)
              ELSE m
        watchedUpdateText == getWatchedUpdateText(oldCard, updatedCard)
        m2 == IF updateNotifies(isAutomated) /\ watchedUpdateText # "null"
              THEN notifyCurrentUser(m1, updatedCard.subscribers,
                                     <<watchedUpdateText, updatedCard.text>>,
                                     updatedCard, list, isAutomated, d)
              ELSE m1
        m3 == log([m2 EXCEPT !.board = setCards(@, listIndex,
                                 replaceAt(list.cards, cardIndex, updatedCard))],
                  "store", isAutomated, d)
    IN  IF updateEmitsTrigger(isAutomated) /\ "labels" \in DOMAIN updates
        THEN runAddedLabels(m3,
                 addedLabels(updates.labels, oldCard),
                 updatedCard.id, isAutomated, d)
        ELSE m3

moveCard(m, sourceListIndex, sourceCardIndex, destListIndex, destCardIndex, isAutomated, d) ==
    IF isNoOpMove(sourceListIndex, sourceCardIndex, destListIndex, destCardIndex) THEN m
    ELSE IF ~hasList(m.board, sourceListIndex) THEN throw(m, isAutomated, d)
    ELSE
    LET sourceList == At(m.board, sourceListIndex)
        card0 == IF hasCard(sourceList.cards, sourceCardIndex)
                 THEN At(sourceList.cards, sourceCardIndex)
                 ELSE undefinedCard
        m1 == log([m EXCEPT !.board = setCards(@, sourceListIndex,
                                spliceRemove(sourceList.cards, sourceCardIndex))],
                  "remove", isAutomated, d)
        cross == moveNotifies(isAutomated) /\ sourceListIndex # destListIndex
    IN  \* draggedCard.activity of undefined; destList.title, destList.cards of undefined
        \* draggedCard.activity.unshift of undefined
        IF (cross /\ (isUndefined(card0) \/ "activity" \notin DOMAIN card0))
           \/ ~hasList(m.board, destListIndex)
        THEN throw(m1, isAutomated, d)
        ELSE
        LET destList == At(m.board, destListIndex)
            draggedCard == IF cross
                           THEN [card0 EXCEPT !.activity =
                                    <<createActivity(m1.ids, <<"moved", sourceList.title, destList.title>>, now)>> \o @]
                           ELSE card0
            m2 == IF cross
                  THEN log([m1 EXCEPT !.ids = @ + 1], "activity", isAutomated, d)
                  ELSE m1
            m3 == IF cross
                  THEN notifyCurrentUser(m2, draggedCard.subscribers,
                                         <<"moved", draggedCard.text, destList.title>>,
                                         draggedCard, destList, isAutomated, d)
                  ELSE m2
            m4 == log([m3 EXCEPT !.board = setCards(@, destListIndex,
                                    spliceInsert(At(m3.board, destListIndex).cards,
                                                 destCardIndex, draggedCard))],
                      "insert", isAutomated, d)
            m5 == IF selectedCard # NoSel
                     /\ selectedCard.listIndex = sourceListIndex
                     /\ selectedCard.cardIndex = sourceCardIndex
                  THEN [m4 EXCEPT !.sel = [listIndex |-> destListIndex, cardIndex |-> destCardIndex]]
                  ELSE m4
        IN  IF moveEmitsTrigger(isAutomated)
            THEN runAutomations(log(m5, "trigger", isAutomated, d),
                                cardMoveTrigger(sourceList, destList),
                                IF isUndefined(draggedCard) THEN undefinedId ELSE draggedCard.id, d)
            ELSE m5

executeAutomationAction(m, action, cardId, d) ==
    LET listIndex == findListIndex(m.board, cardId)
    IN  IF listIndex = -1 THEN m
        ELSE
        LET cardIndex == findCardIndex(At(m.board, listIndex).cards, cardId)
            card == At(At(m.board, listIndex).cards, cardIndex)
        IN  CASE action.type = "move-to-list" ->
                    LET destListIndex == findListById(m.board, action.listId)
                    IN  IF destListIndex # -1 /\ listIndex # destListIndex
                        THEN moveCard(m, listIndex, cardIndex, destListIndex, 0, TRUE, d)
                        ELSE m
              [] action.type = "set-due-date-complete" ->
                    handleUpdateCard(m, listIndex, cardIndex,
                        [dueDate |-> [card.dueDate EXCEPT !.completed = action.completed]],
                        TRUE, d)
              [] action.type = "add-label" ->
                    IF ~includes(card.labels, action.labelId)
                    THEN handleUpdateCard(m, listIndex, cardIndex,
                             [labels |-> Append(card.labels, action.labelId)], TRUE, d)
                    ELSE m
              [] action.type = "add-member" ->
                    IF ~includes(card.members, action.memberId)
                    THEN handleUpdateCard(m, listIndex, cardIndex,
                             [members |-> Append(card.members, action.memberId)], TRUE, d)
                    ELSE m
              [] action.type = "add-checklist" ->
                    handleUpdateCard([m EXCEPT !.ids = @ + 1], listIndex, cardIndex,
                        [checklists |-> Append(card.checklists,
                            [id |-> m.ids, title |-> action.title, items |-> <<>>])],
                        TRUE, d)
              [] action.type = "post-comment" ->
                    handleUpdateCard([m EXCEPT !.ids = @ + 1], listIndex, cardIndex,
                        [comments |-> <<[id |-> m.ids, authorId |-> automationBot,
                                         text |-> action.text, timestamp |-> now,
                                         attachments |-> <<>>]>>
                                      \o card.comments],
                        TRUE, d)
              [] OTHER -> m

-----------------------------------------------------------------------------
(* Persistence *)

\* a sanitizer that recognizes a payload by its URL instead of the kind
sanitizeAttachmentsByUrl(attachments) ==
    [k \in DOMAIN attachments |->
        IF attachments[k].url = "data:image"
        THEN [id |-> attachments[k].id, name |-> attachments[k].name,
              timestamp |-> attachments[k].timestamp, type |-> attachments[k].type]
        ELSE attachments[k]]

sanitizeAttachments(attachments) ==
    [k \in DOMAIN attachments |->
        IF attachments[k].type = "file"
        THEN [id |-> attachments[k].id, name |-> attachments[k].name,
              timestamp |-> attachments[k].timestamp, type |-> attachments[k].type]
        ELSE attachments[k]]

sanitizeCard(card) ==
    LET c1 == [card EXCEPT
                  !.attachments = sanitizeAttachments(@),
                  !.comments = [k \in DOMAIN @ |->
                                   [@[k] EXCEPT !.attachments = sanitizeAttachments(@)]],
                  !.checklists = [k \in DOMAIN @ |->
                                   [@[k] EXCEPT !.items = [j \in DOMAIN @ |->
                                       [@[j] EXCEPT !.attachments = sanitizeAttachments(@)]]]]]
    IN  IF c1.cover.imageUrl = "data:image"
        THEN [c1 EXCEPT !.cover.imageUrl = "undefined"]
        ELSE c1

getSanitizedBoardDataForStorage(data) ==
    [l \in DOMAIN data |->
        [data[l] EXCEPT !.cards = [k \in DOMAIN @ |-> sanitizeCard(@[k])]]]

\* the cards of a persisted document, list after list
RECURSIVE flatCards(_)
flatCards(doc) ==
    IF doc = <<>> THEN <<>> ELSE Head(doc).cards \o flatCards(Tail(doc))

\* read a field of a persisted record, or its default when it is absent
orDefault(rec, f, dflt) == IF f \in DOMAIN rec THEN rec[f] ELSE dflt

\* the shortId of a persisted record: 0 when absent (card.cardShortId || 0)
rawShortId(card) == orDefault(card, "cardShortId", 0)

\* boardData initializer, from a saved document: counter counts the cards as
\* they are mapped, list after list
rehydrateCard(card, counter) ==
    [f \in (DOMAIN card) \cup {"cardShortId", "labels", "members", "dueDate", "startDate",
                               "location", "checklists", "attachments", "cover",
                               "subscribers", "comments", "customFields", "linkedCards"} |->
        CASE f = "cardShortId" -> IF rawShortId(card) # 0 THEN rawShortId(card) ELSE counter
          [] f = "labels" -> orDefault(card, f, <<>>)
          [] f = "members" -> orDefault(card, f, <<>>)
          [] f = "dueDate" -> orDefault(card, f, NoDue)
          [] f = "startDate" -> orDefault(card, f, 0)
          [] f = "location" -> orDefault(card, f, <<>>)
          [] f = "checklists" ->
                LET cls == orDefault(card, f, <<>>)
                IN  [k \in DOMAIN cls |->
                        [cls[k] EXCEPT !.items = [j \in DOMAIN @ |->
                            [g \in (DOMAIN @[j]) \cup {"attachments"} |->
                                orDefault(@[j], g, <<>>)]]]]
          [] f = "attachments" -> orDefault(card, f, <<>>)
          [] f = "cover" -> orDefault(card, f, [imageUrl |-> "undefined", size |-> "normal"])
          [] f = "subscribers" -> orDefault(card, f, <<>>)
          [] f = "comments" ->
                LET cms == orDefault(card, f, <<>>)
                IN  [k \in DOMAIN cms |->
                        [g \in (DOMAIN cms[k]) \cup {"attachments"} |->
                            orDefault(cms[k], g, <<>>)]]
          [] f = "customFields" -> orDefault(card, f, <<>>)
          [] f = "linkedCards" -> orDefault(card, f, <<>>)
          [] OTHER -> card[f]]

RECURSIVE cardsBefore(_, _)
cardsBefore(doc, l) == IF l <= 1 THEN 0 ELSE Len(doc[l - 1].cards) + cardsBefore(doc, l - 1)

rehydrate(doc) ==
    [l \in DOMAIN doc |->
        [doc[l] EXCEPT !.cards = [k \in DOMAIN @ |->
            rehydrateCard(@[k], cardsBefore(doc, l) + k)]]]

RECURSIVE maxShortId(_)
maxShortId(cards) ==
    IF cards = <<>> THEN 0
    ELSE LET r == maxShortId(Tail(cards))
             h == rawShortId(Head(cards))
         IN  IF h > r THEN h ELSE r

\* cardCounter initializer, from a saved document
restoreCounter(doc) == maxShortId(flatCards(doc))

-----------------------------------------------------------------------------
(* The board a first start builds (no saved document) *)

newCard(id, shortId, text, activityId, t) ==
    [id |-> id, text |-> text, description |-> <<>>, comments |-> <<>>,
     activity |-> <<createActivity(activityId, <<"created">>, t)>>,
     labels |-> <<>>, members |-> <<>>, dueDate |-> NoDue, startDate |-> 0,
     location |-> <<>>, checklists |-> <<>>, attachments |-> <<>>,
     cover |-> [imageUrl |-> "undefined"], subscribers |-> <<>>,
     cardShortId |-> shortId, customFields |-> <<>>, linkedCards |-> <<>>]

cardId1 == GenBase
cardId2 == GenBase + 1
cardId3 == GenBase + 2
cardId4 == GenBase + 3

initialData ==
    << [id |-> list1, title |-> <<"W">>, cards |-> <<
          [newCard(cardId1, 1, <<"D">>, GenBase + 5, NowInit) EXCEPT
              !.description = <<"i">>,
              !.comments = <<[id |-> GenBase + 4, authorId |-> member2, text |-> <<"g">>,
                              timestamp |-> NowInit, attachments |-> <<>>]>>,
              !.labels = <<label3, label5>>,
              !.members = <<member1>>,
              !.dueDate = Due(NowInit + 5 * OneDay, FALSE),
              !.startDate = NowInit - 2 * OneDay,
              !.location = <<"s">>,
              !.checklists = <<[id |-> GenBase + 6, title |-> <<"p">>, items |-> <<
                    [id |-> GenBase + 7, text |-> <<"r">>, completed |-> TRUE,
                     attachments |-> <<>>],
                    [id |-> GenBase + 8, text |-> <<"m">>, completed |-> FALSE,
                     attachments |-> <<[id |-> GenBase + 9, url |-> "data:image",
                                        name |-> <<"v">>, type |-> "file",
                                        timestamp |-> NowInit, previewUrl |-> "data:image"]>>]>>]>>,
              !.attachments = <<[id |-> GenBase + 10, url |-> "https", name |-> <<"f">>,
                                 timestamp |-> NowInit, type |-> "link"]>>,
              !.cover = [imageUrl |-> "https"],
              !.subscribers = <<member1>>] >>],
       [id |-> list2, title |-> <<"Q">>, cards |-> <<
          [newCard(cardId2, 2, <<"c">>, GenBase + 11, NowInit) EXCEPT
              !.description = <<"u">>,
              !.activity = <<createActivity(GenBase + 11, <<"created">>, NowInit),
                             createActivity(GenBase + 12, <<"linked">>, NowInit)>>,
              !.labels = <<label1, label4>>,
              !.members = <<member1, member2>>,
              !.dueDate = Due(NowInit + 14 * OneDay, FALSE),
              !.startDate = NowInit,
              !.subscribers = <<member3>>,
              !.linkedCards = <<cardId3>>],
          [newCard(cardId3, 3, <<"w">>, GenBase + 13, NowInit) EXCEPT
              !.description = <<"k">>,
              !.labels = <<label4>>,
              !.members = <<member3>>,
              !.dueDate = Due(NowInit + 18 * OneDay, FALSE)] >>],
       [id |-> list3, title |-> <<"N">>, cards |-> <<
          [newCard(cardId4, 4, <<"R">>, GenBase + 14, NowInit) EXCEPT
              !.description = <<"y">>,
              !.activity = <<createActivity(GenBase + 14, <<"completed">>, NowInit)>>,
              !.labels = <<label2>>,
              !.members = <<member2>>,
              !.dueDate = Due(NowInit - 3 * OneDay, TRUE),
              !.startDate = NowInit - 7 * OneDay] >>] >>

\* generateId() calls made while building initialData
InitialIds == 15

\* cardCounter initializer when there is no saved document
InitialCounter == 4

-----------------------------------------------------------------------------
(* Automation configurations *)

defaultAutomations ==
    [rules |-> <<
        [id |-> 1, trigger |-> [type |-> "card-move", toListId |-> list3],
         action |-> [type |-> "set-due-date-complete", completed |-> TRUE]],
        [id |-> 2, trigger |-> [type |-> "label-add", labelId |-> label2],
         action |-> [type |-> "add-label", labelId |-> label3]] >>,
     cardButtons |-> <<
        [id |-> 1, action |-> [type |-> "add-member", memberId |-> member2]] >>]

\* a configuration document that uses every action of the vocabulary, with
\* rules whose actions are themselves trigger-worthy changes
chainAutomations ==
    [rules |-> <<
        [id |-> 1, trigger |-> [type |-> "card-move", toListId |-> list2],
         action |-> [type |-> "move-to-list", listId |-> list3]],
        [id |-> 2, trigger |-> [type |-> "card-move", toListId |-> list2],
         action |-> [type |-> "add-label", labelId |-> label2]],
        [id |-> 3, trigger |-> [type |-> "label-add", labelId |-> label2],
         action |-> [type |-> "move-to-list", listId |-> list1]],
        [id |-> 4, trigger |-> [type |-> "card-move", toListId |-> list3],
         action |-> [type |-> "set-due-date-complete", completed |-> TRUE]],
        [id |-> 5, trigger |-> [type |-> "card-move", toListId |-> list1],
         action |-> [type |-> "post-comment", text |-> <<"t">>]],
        [id |-> 6, trigger |-> [type |-> "card-move", toListId |-> list1],
         action |-> [type |-> "add-checklist", title |-> <<"o">>]],
        [id |-> 7, trigger |-> [type |-> "label-add", labelId |-> label2],
         action |-> [type |-> "add-member", memberId |-> member1]] >>,
     cardButtons |-> <<
        [id |-> 1, action |-> [type |-> "add-member", memberId |-> member1]],
        [id |-> 2, action |-> [type |-> "set-due-date-complete", completed |-> TRUE]],
        [id |-> 3, action |-> [type |-> "move-to-list", listId |-> list3]] >>]

AutomationDocs == {defaultAutomations, chainAutomations}

-----------------------------------------------------------------------------
(* Appearance: the state of the useTheme hook and of the element customizer *)

DEFAULT_THEME ==
    [mode |-> "system", sourceColor |-> "#0079BF", radius |-> 10,
     density |-> "comfortable", fontScale |-> 100, reducedMotion |-> FALSE,
     boardBackground |-> "none", boardWidth |-> "wide"]

\* Object.keys(DEFAULT_THEME), in the order of the object literal
ThemeKeys == <<"mode", "sourceColor", "radius", "density", "fontScale",
               "reducedMotion", "boardBackground", "boardWidth">>

\* JSON.stringify of a theme object: its members as the text lists them
stringify(obj) ==
    LET keys == SelectSeq(ThemeKeys, LAMBDA k : k \in DOMAIN obj)
    IN  [i \in DOMAIN keys |-> <<keys[i], obj[keys[i]]>>]

\* JSON.parse of such a text
parse(text) ==
    [k \in { text[i][1] : i \in DOMAIN text } |->
        text[CHOOSE i \in DOMAIN text : text[i][1] = k][2]]

\* { ...a, ...b }
spread(a, b) ==
    [k \in (DOMAIN a) \cup (DOMAIN b) |-> IF k \in DOMAIN b THEN b[k] ELSE a[k]]

\* a custom CSS object without rules
noCss == [selector \in {} |-> ""]

\* the hook and the customizer when the page is loaded with no saved
\* appearance
appearanceStart ==
    /\ theme = DEFAULT_THEME
    /\ themeStore = stringify(DEFAULT_THEME)
    /\ themeFile = <<>>
    /\ exportedTheme = [theme |-> DEFAULT_THEME, reset |-> FALSE]
    /\ customCss = noCss
    /\ cssStore = noCss
    /\ customizer = [isOpen |-> FALSE, activeSelector |-> "header", localCss |-> noCss]
    /\ cssAtOpen = noCss
    /\ uploads = <<>>

-----------------------------------------------------------------------------
(* Events *)

Machine == [board |-> boardData, notifs |-> notifications, sel |-> selectedCard,
            ids |-> idCounter, trace |-> <<>>]

Op(name, args, cardId) == [op |-> name, args |-> args, cardId |-> cardId]

\* the handler called setBoardData: with a board it changed, or with a new
\* array of the same contents
setsBoard(m) ==
    \/ m.board # boardData
    \/ \E k \in DOMAIN m.trace : m.trace[k].ev \in {"store", "insert"}

\* what a handler leaves behind: the state setters take effect and, when the
\* board was set, the persist effect writes the sanitized board (or, the
\* write failing, logs the error and alerts) and the visibility memo is
\* recomputed
Commit(m, op) ==
    /\ boardData' = m.board
    /\ notifications' = m.notifs
    /\ selectedCard' = m.sel
    /\ idCounter' = m.ids
    /\ trace' = m.trace
    /\ lastOp' = op
    /\ storage' = IF setsBoard(m) /\ ~storageFull
                  THEN getSanitizedBoardDataForStorage(m.board)
                  ELSE storage
    /\ persistLog' = IF setsBoard(m) /\ storageFull
                     THEN persistLog \o <<"QuotaExceeded", "alert">>
                     ELSE persistLog
    /\ visibilityMap' = IF setsBoard(m)
                        THEN computeVisibility(m.board, filters, now)
                        ELSE visibilityMap
    /\ steps' = steps + 1

validCard(listIndex, cardIndex) ==
    /\ listIndex \in 0..(Len(boardData) - 1)
    /\ cardIndex \in 0..(Len(At(boardData, listIndex).cards) - 1)

hasModal == selectedCard # NoSel /\ validCard(selectedCard.listIndex, selectedCard.cardIndex)

currentCard == At(At(boardData, selectedCard.listIndex).cards, selectedCard.cardIndex)

\* List.handleDrop: the card elements of the list that can be dropped on
visibleCardElements(list, vis, draggedId) ==
    SelectSeq(list.cards, LAMBDA c : vis[c.id] /\ c.id # draggedId)

\* List.handleDrop: targetCardIndex, the index of the card to insert before
dropAnchorIndex(list, vis, draggedId, closestIndexInFiltered) ==
    LET elements == visibleCardElements(list, vis, draggedId)
        visibleCards == SelectSeq(list.cards, LAMBDA c : vis[c.id])
    IN  IF closestIndexInFiltered = Len(elements) THEN Len(list.cards)
        ELSE findCardIndex(list.cards, At(visibleCards, closestIndexInFiltered).id)

\* a handleDrop that hands targetCardIndex on as it is
dropTargetUnadjusted(listIndex, sourceListIndex, sourceCardIndex, targetCardIndex) ==
    targetCardIndex

\* List.handleDrop: the destination index handed to moveCard
dropTargetIndex(listIndex, sourceListIndex, sourceCardIndex, targetCardIndex) ==
    IF sourceListIndex = listIndex /\ sourceCardIndex < targetCardIndex
    THEN targetCardIndex - 1
    ELSE targetCardIndex

handleDrop(listIndex, sourceListIndex, sourceCardIndex, closestIndexInFiltered) ==
    LET list == At(boardData, listIndex)
        dragged == At(At(boardData, sourceListIndex).cards, sourceCardIndex)
        anchor == dropAnchorIndex(list, visibilityMap, dragged.id, closestIndexInFiltered)
        target == dropTargetIndex(listIndex, sourceListIndex, sourceCardIndex, anchor)
    IN  Commit(moveCard(Machine, sourceListIndex, sourceCardIndex, listIndex, target, FALSE, 0),
               Op("handleDrop", <<sourceListIndex, sourceCardIndex, listIndex, target, anchor,
                                  closestIndexInFiltered>>,
                  dragged.id))

\* a drag of a visible card, dropped on a list at one of the pointer
\* positions the visible card elements of that list distinguish
Drop ==
    /\ \E sourceListIndex \in 0..(Len(boardData) - 1), listIndex \in 0..(Len(boardData) - 1) :
       \E sourceCardIndex \in 0..(Len(At(boardData, sourceListIndex).cards) - 1) :
          LET dragged == At(At(boardData, sourceListIndex).cards, sourceCardIndex)
              elements == visibleCardElements(At(boardData, listIndex), visibilityMap, dragged.id)
          IN  /\ visibilityMap[dragged.id]
              /\ \E closest \in 0..Len(elements) :
                    handleDrop(listIndex, sourceListIndex, sourceCardIndex, closest)
    /\ UNCHANGED <<cardCounter, automations, filters, now, created, assigned, dueIn, statusOut,
                   storageFull, appearance, uploads>>

handleCardClick ==
    /\ ~hasModal
    /\ \E listIndex \in 0..(Len(boardData) - 1) :
       \E cardIndex \in 0..(Len(At(boardData, listIndex).cards) - 1) :
          /\ visibilityMap[At(At(boardData, listIndex).cards, cardIndex).id]
          /\ selectedCard' = [listIndex |-> listIndex, cardIndex |-> cardIndex]
          /\ lastOp' = Op("handleCardClick", <<listIndex, cardIndex>>,
                          At(At(boardData, listIndex).cards, cardIndex).id)
    /\ trace' = <<>>
    /\ UNCHANGED <<boardData, cardCounter, notifications, automations, filters,
                   visibilityMap, storage, now, idCounter, created, assigned, steps,
                   dueIn, statusOut,
                   storageFull, persistLog, appearance, uploads>>

handleCloseModal ==
    /\ selectedCard # NoSel
    /\ selectedCard' = NoSel
    /\ lastOp' = Op("handleCloseModal", <<>>, -1)
    /\ trace' = <<>>
    /\ UNCHANGED <<boardData, cardCounter, notifications, automations, filters,
                   visibilityMap, storage, now, idCounter, created, assigned, steps,
                   dueIn, statusOut,
                   storageFull, persistLog, appearance, uploads>>

\* CardModal: onUpdateCard(updates) on the selected card
updateSelected(name, args, updates) ==
    Commit(handleUpdateCard(Machine, selectedCard.listIndex, selectedCard.cardIndex,
                            updates, FALSE, 0),
           Op(name, args, currentCard.id))

ToggleLabels == {label2, label3}
ToggleMembers == {member1, member2}

handleToggleLabel ==
    /\ hasModal
    /\ \E labelId \in ToggleLabels :
          updateSelected("handleToggleLabel", <<labelId>>,
              [labels |-> IF includes(currentCard.labels, labelId)
                          THEN filterOut(currentCard.labels, labelId)
                          ELSE Append(currentCard.labels, labelId)])
    /\ UNCHANGED <<cardCounter, automations, filters, now, created, assigned, dueIn, statusOut,
                   storageFull, appearance, uploads>>

handleToggleMember ==
    /\ hasModal
    /\ \E memberId \in ToggleMembers :
          updateSelected("handleToggleMember", <<memberId>>,
              [members |-> IF includes(currentCard.members, memberId)
                           THEN filterOut(currentCard.members, memberId)
                           ELSE Append(currentCard.members, memberId)])
    /\ UNCHANGED <<cardCounter, automations, filters, now, created, assigned, dueIn, statusOut,
                   storageFull, appearance, uploads>>

handleToggleDueComplete ==
    /\ hasModal
    /\ updateSelected("handleToggleDueComplete", <<>>,
          [dueDate |-> [currentCard.dueDate EXCEPT !.completed = ~@]])
    /\ UNCHANGED <<cardCounter, automations, filters, now, created, assigned, dueIn, statusOut,
                   storageFull, appearance, uploads>>

handleToggleSubscription ==
    /\ hasModal
    /\ updateSelected("handleToggleSubscription", <<>>,
          [subscribers |-> IF includes(currentCard.subscribers, CURRENT_USER_ID)
                           THEN filterOut(currentCard.subscribers, CURRENT_USER_ID)
                           ELSE Append(currentCard.subscribers, CURRENT_USER_ID)])
    /\ UNCHANGED <<cardCounter, automations, filters, now, created, assigned, dueIn, statusOut,
                   storageFull, appearance, uploads>>

\* CardModal: executeCustomButton(button, card.id)
executeCustomButton ==
    /\ hasModal
    /\ \E k \in DOMAIN automations.cardButtons :
          Commit(executeAutomationAction(Machine, automations.cardButtons[k].action,
                                         currentCard.id, 0),
                 Op("executeCustomButton", <<k>>, currentCard.id))
    /\ UNCHANGED <<cardCounter, automations, filters, now, created, assigned, dueIn, statusOut,
                   storageFull, appearance, uploads>>

-----------------------------------------------------------------------------
(* Spec: a session on the first-start board, under one automation document *)

\* the state the App is constructed in when localStorage is empty
FirstStart ==
    /\ boardData = initialData
    /\ cardCounter = InitialCounter
    /\ selectedCard = NoSel
    /\ notifications = <<>>
    /\ filters = DefaultFilters
    /\ visibilityMap = computeVisibility(initialData, DefaultFilters, NowInit)
    /\ storage = getSanitizedBoardDataForStorage(initialData)
    /\ idCounter = GenBase + InitialIds
    /\ trace = <<>>
    /\ created = <<>>
    /\ assigned = <<>>
    /\ steps = 0
    /\ lastOp = Op("init", <<>>, -1)
    /\ statusOut = "unset"
    /\ storageFull = FALSE
    /\ persistLog = <<>>
    /\ appearanceStart

Init ==
    /\ automations \in AutomationDocs
    /\ now = NowInit
    /\ dueIn = NoDue
    /\ FirstStart

Next ==
    \/ steps < MaxSteps /\ Drop
    \/ handleCardClick
    \/ handleCloseModal
    \/ steps < MaxSteps /\ handleToggleLabel
    \/ steps < MaxSteps /\ handleToggleMember
    \/ steps < MaxSteps /\ handleToggleDueComplete
    \/ steps < MaxSteps /\ handleToggleSubscription
    \/ steps < MaxSteps /\ executeCustomButton

Spec == Init /\ [][Next]_vars

-----------------------------------------------------------------------------
(* SpecDrop: drag and drop on a saved board, under the label filter *)

\* the state the App is constructed in when localStorage holds doc
AppStart(doc) ==
    /\ boardData = rehydrate(doc)
    /\ cardCounter = restoreCounter(doc)
    /\ selectedCard = NoSel
    /\ notifications = <<>>
    /\ filters = DefaultFilters
    /\ visibilityMap = computeVisibility(rehydrate(doc), DefaultFilters, NowInit)
    /\ storage = getSanitizedBoardDataForStorage(rehydrate(doc))
    /\ now = NowInit
    /\ trace = <<>>
    /\ created = <<>>
    /\ assigned = <<>>
    /\ steps = 0
    /\ lastOp = Op("init", <<>>, -1)
    /\ dueIn = NoDue
    /\ statusOut = "unset"
    /\ storageFull = FALSE
    /\ persistLog = <<>>
    /\ appearanceStart

\* a saved board: one list of four cards, two of them labelled, and a list
\* of one card
dropDoc ==
    getSanitizedBoardDataForStorage(
    << [id |-> list1, title |-> <<"W">>, cards |-> <<
          [newCard(GenBase, 1, <<"a">>, GenBase + 5, NowInit) EXCEPT !.labels = <<label1>>],
          newCard(GenBase + 1, 2, <<"b">>, GenBase + 6, NowInit),
          [newCard(GenBase + 2, 3, <<"c">>, GenBase + 7, NowInit) EXCEPT !.labels = <<label1>>],
          newCard(GenBase + 3, 4, <<"d">>, GenBase + 8, NowInit) >>],
       [id |-> list2, title |-> <<"Q">>, cards |-> <<
          [newCard(GenBase + 4, 5, <<"e">>, GenBase + 9, NowInit) EXCEPT
              !.subscribers = <<member1>>] >>] >>)

DropDocIds == 10

InitDrop ==
    /\ automations = defaultAutomations
    /\ idCounter = GenBase + DropDocIds
    /\ AppStart(dropDoc)

FilterLabels == {label1, noLabels}

\* FilterPopover: onFiltersChange(newFilters), and the visibility memo
\* recomputed for the new filters
setFilters(newFilters) ==
    /\ filters' = newFilters
    /\ lastOp' = Op("setFilters", <<>>, -1)
    /\ visibilityMap' = computeVisibility(boardData, newFilters, now)
    /\ trace' = <<>>
    /\ UNCHANGED <<boardData, cardCounter, selectedCard, notifications, automations,
                   storage, now, idCounter, created, assigned, steps, dueIn, statusOut,
                   storageFull, persistLog, appearance, uploads>>

handleLabelToggle ==
    \E labelId \in FilterLabels :
        setFilters([filters EXCEPT !.labels = IF includes(@, labelId) THEN filterOut(@, labelId)
                                             ELSE Append(@, labelId)])

NextDrop ==
    \/ steps < MaxDropSteps /\ Drop
    \/ handleLabelToggle

SpecDrop == InitDrop /\ [][NextDrop]_vars

-----------------------------------------------------------------------------
(* SpecIds: cards and lists created and deleted, and the page reloaded *)

CardTitles == {<<"n">>}
ListTitles == {<<"L">>}

\* a counter derived from the number of cards on the board
nextShortIdByCount(counter, board) == totalCards(board) + 1

\* handleAddCard: newCount
nextShortId(counter, board) == counter + 1

handleAddCard ==
    /\ ~hasModal
    /\ \E listIndex \in 0..(Len(boardData) - 1), text \in CardTitles :
          LET newCount == nextShortId(cardCounter, boardData)
              card == newCard(idCounter, newCount, text, idCounter + 1, now)
              board == setCards(boardData, listIndex, Append(At(boardData, listIndex).cards, card))
          IN  /\ Commit([Machine EXCEPT !.board = board, !.ids = @ + 2],
                        Op("handleAddCard", <<listIndex>>, card.id))
              /\ cardCounter' = newCount
              /\ created' = Append(created, newCount)
              /\ assigned' = Append(assigned, newCount)
    /\ UNCHANGED <<automations, filters, now, dueIn, statusOut,
                   storageFull, appearance, uploads>>

\* CardModal: onDeleteCard on the selected card
handleDeleteCard ==
    /\ hasModal
    /\ LET listIndex == selectedCard.listIndex
           board == setCards(boardData, listIndex,
                             spliceRemove(At(boardData, listIndex).cards, selectedCard.cardIndex))
       IN  Commit([Machine EXCEPT !.board = board, !.sel = NoSel],
                  Op("handleDeleteCard", <<listIndex, selectedCard.cardIndex>>, currentCard.id))
    /\ UNCHANGED <<cardCounter, automations, filters, now, created, assigned, dueIn, statusOut,
                   storageFull, appearance, uploads>>

handleDeleteList ==
    /\ ~hasModal
    /\ \E listIndex \in 0..(Len(boardData) - 1) :
          Commit([Machine EXCEPT !.board = spliceRemove(boardData, listIndex)],
                 Op("handleDeleteList", <<listIndex>>, -1))
    /\ UNCHANGED <<cardCounter, automations, filters, now, created, assigned, dueIn, statusOut,
                   storageFull, appearance, uploads>>

handleAddList ==
    /\ ~hasModal
    /\ \E title \in ListTitles :
          Commit([Machine EXCEPT
                     !.board = Append(boardData, [id |-> idCounter, title |-> title, cards |-> <<>>]),
                     !.ids = @ + 1],
                 Op("handleAddList", <<>>, -1))
    /\ UNCHANGED <<cardCounter, automations, filters, now, created, assigned, dueIn, statusOut,
                   storageFull, appearance, uploads>>

\* the page is loaded again: every useState initializer runs on what the
\* persist effect last wrote
Reload ==
    /\ boardData' = rehydrate(storage)
    /\ cardCounter' = restoreCounter(storage)
    /\ selectedCard' = NoSel
    /\ notifications' = <<>>
    /\ filters' = DefaultFilters
    /\ visibilityMap' = computeVisibility(rehydrate(storage), DefaultFilters, now)
    /\ storage' = IF storageFull THEN storage
                  ELSE getSanitizedBoardDataForStorage(rehydrate(storage))
    /\ persistLog' = IF storageFull THEN <<"QuotaExceeded", "alert">> ELSE <<>>
    /\ trace' = <<>>
    /\ created' = <<>>
    /\ steps' = steps + 1
    /\ lastOp' = Op("Reload", <<>>, -1)
    /\ UNCHANGED <<automations, now, idCounter, assigned, dueIn, statusOut,
                   storageFull, appearance, uploads>>

InitIds ==
    /\ automations = defaultAutomations
    /\ now = NowInit
    /\ dueIn = NoDue
    /\ FirstStart

NextIds ==
    \/ steps < MaxIdSteps /\ handleAddCard
    \/ steps < MaxIdSteps /\ handleDeleteCard
    \/ steps < MaxIdSteps /\ handleDeleteList
    \/ steps < MaxIdSteps /\ handleAddList
    \/ steps < MaxIdSteps /\ Reload
    \/ handleCardClick
    \/ handleCloseModal

SpecIds == InitIds /\ [][NextIds]_vars

-----------------------------------------------------------------------------
(* SpecVis: the filter popover over a board of four cards *)

cardA == GenBase
cardB == GenBase + 1
cardC == GenBase + 2
cardD == GenBase + 3

ProbeTitles == {<<"a", "B">>, <<"b">>}
ProbeDescriptions == {<<"A">>}
ProbeMembers == {<<>>, <<member1>>, <<member2>>}
ProbeLabels == {<<>>, <<label1>>, <<label2, label1>>}
ProbeDueDates == {NoDue, Due(NowInit - OneDay, FALSE), Due(NowInit + 1, FALSE),
                  Due(NowInit + 5 * OneDay, FALSE), Due(NowInit - OneDay, TRUE)}

\* list "Backlog": A without due date, B due yesterday, C due yesterday and
\* completed, and a fourth card D
visDoc(title, description, members, labels, dueDate) ==
    getSanitizedBoardDataForStorage(
    << [id |-> list1, title |-> <<"K">>, cards |-> <<
          newCard(cardA, 1, <<"x">>, GenBase + 4, NowInit),
          [newCard(cardB, 2, <<"y">>, GenBase + 5, NowInit) EXCEPT
              !.dueDate = Due(NowInit - OneDay, FALSE)],
          [newCard(cardC, 3, <<"z">>, GenBase + 6, NowInit) EXCEPT
              !.dueDate = Due(NowInit - OneDay, TRUE)],
          [newCard(cardD, 4, title, GenBase + 7, NowInit) EXCEPT
              !.description = description,
              !.members = members,
              !.labels = labels,
              !.dueDate = dueDate] >>] >>)

VisDocIds == 8

InitVis ==
    /\ automations = defaultAutomations
    /\ idCounter = GenBase + VisDocIds
    /\ \E title \in ProbeTitles, description \in ProbeDescriptions,
          members \in ProbeMembers, labels \in ProbeLabels, dueDate \in ProbeDueDates :
          AppStart(visDoc(title, description, members, labels, dueDate))

Queries == {<<>>, <<"a">>, <<"A", "b">>, <<"b", "a">>}
FilterMembers == {member1, noMembers}
DueFilters == {"any", "none", "overdue", "due-soon", "complete"}

handleQueryChange ==
    \E query \in Queries :
        setFilters([filters EXCEPT !.query = query])

handleMemberToggle ==
    \E memberId \in FilterMembers :
        setFilters([filters EXCEPT !.members = IF includes(@, memberId) THEN filterOut(@, memberId)
                                              ELSE Append(@, memberId)])

\* a radio input fires onChange only when another option is chosen
handleDueDateChange ==
    \E status \in DueFilters :
        /\ status # filters.dueDate
        /\ setFilters([filters EXCEPT !.dueDate = status])

clearFilters == setFilters(DefaultFilters)

NextVis ==
    \/ handleQueryChange
    \/ handleMemberToggle
    \/ handleLabelToggle
    \/ handleDueDateChange
    \/ clearFilters

SpecVis == InitVis /\ [][NextVis]_vars

-----------------------------------------------------------------------------
(* SpecDue: getDueDateStatus on every due date and clock of the bounds *)

DueInputs ==
    { Due(ts, c) : ts \in (0 - MaxBefore)..MaxInstant, c \in BOOLEAN }
        \cup { [NoDue EXCEPT !.completed = c] : c \in BOOLEAN }

InitDue ==
    /\ automations = defaultAutomations
    /\ FirstStart
    /\ dueIn \in DueInputs
    /\ now \in NowMin..NowMax

applyDueStatus ==
    /\ statusOut' = getDueDateStatus(dueIn, now)
    /\ lastOp' = Op("getDueDateStatus", <<>>, -1)
    /\ UNCHANGED <<boardData, cardCounter, selectedCard, notifications, automations,
                   filters, visibilityMap, storage, now, idCounter, trace, created,
                   assigned, steps, dueIn,
                   storageFull, persistLog, appearance, uploads>>

\* the clock moves on
tick ==
    /\ now < NowMax + MaxTick
    /\ now' = now + 1
    /\ statusOut' = "unset"
    /\ lastOp' = Op("tick", <<>>, -1)
    /\ UNCHANGED <<boardData, cardCounter, selectedCard, notifications, automations,
                   filters, visibilityMap, storage, idCounter, trace, created,
                   assigned, steps, dueIn,
                   storageFull, persistLog, appearance, uploads>>

NextDue ==
    \/ applyDueStatus
    \/ tick

SpecDue == InitDue /\ [][NextDue]_vars

-----------------------------------------------------------------------------
(* SpecClock: the visibility memo while the clock runs.  useMemo recomputes *)
(* visibilityMap when boardData or filters is a new object, whether or not  *)
(* its contents differ.                                                     *)

Locations == {<<>>, <<"s">>}

\* CardModal: handleSetLocation(location) on the selected card; it calls
\* updateCard whatever the location was before
handleSetLocation ==
    /\ hasModal
    /\ \E location \in Locations :
          updateSelected("handleSetLocation", <<>>, [location |-> location])
    /\ UNCHANGED <<cardCounter, automations, filters, now, created, assigned, dueIn, statusOut,
                   storageFull, appearance, uploads>>

\* Date.now() moves on between two events; nothing is rendered
timePasses ==
    /\ now < NowInit + MaxClock
    /\ now' = now + 1
    /\ UNCHANGED <<boardData, cardCounter, selectedCard, notifications, automations,
                   filters, visibilityMap, storage, idCounter, trace, created,
                   assigned, steps, lastOp, dueIn, statusOut,
                   storageFull, persistLog, appearance, uploads>>

InitClock ==
    /\ automations = defaultAutomations
    /\ idCounter = GenBase + VisDocIds
    /\ \E labels \in ProbeLabels, dueDate \in ProbeDueDates :
          AppStart(visDoc(<<"b">>, <<"A">>, <<>>, labels, dueDate))

NextClock ==
    \/ steps < MaxClockSteps /\ handleSetLocation
    \/ handleDueDateChange
    \/ handleCardClick
    \/ handleCloseModal
    \/ timePasses

SpecClock == InitClock /\ [][NextClock]_vars

-----------------------------------------------------------------------------
(* SpecApi: moveCard, handleDeleteCard and handleDeleteList called with     *)
(* coordinates that may lie past the end of the board or of a list          *)

\* handleDeleteCard(listIndex, cardIndex)
deleteCard(m, listIndex, cardIndex) ==
    IF ~hasList(m.board, listIndex) THEN throw(m, FALSE, 0)
    ELSE log([m EXCEPT !.board = setCards(@, listIndex,
                                    spliceRemove(At(m.board, listIndex).cards, cardIndex)),
                       !.sel = NoSel],
             "store", FALSE, 0)

\* handleDeleteList(listIndex): boardData.filter((_, index) => index !== listIndex)
deleteList(m, listIndex) ==
    log([m EXCEPT !.board = spliceRemove(@, listIndex)], "store", FALSE, 0)

\* every card of the board can be rendered
renders(board) == \A c \in allCards(board) : ~isUndefined(c)

\* what a handler leaves behind when it may have stopped at an error: the
\* lists it mutated in place stay mutated and the setters it called take
\* effect; the persist effect and the visibility memo run only after a
\* render of a board that was set and can be rendered
Settle(m, op) ==
    IF ~threw(m) /\ renders(m.board) THEN Commit(m, op)
    ELSE /\ boardData' = m.board
         /\ notifications' = m.notifs
         /\ selectedCard' = m.sel
         /\ idCounter' = m.ids
         /\ trace' = m.trace
         /\ lastOp' = op
         /\ steps' = steps + 1
         /\ UNCHANGED <<storage, visibilityMap,
                   persistLog>>

\* indices up to Beyond past the last one
listCoordinates == 0..(Len(boardData) - 1 + Beyond)

cardCoordinates(listIndex) ==
    IF hasList(boardData, listIndex)
    THEN 0..(Len(At(boardData, listIndex).cards) - 1 + Beyond)
    ELSE 0..Beyond

cardIdAt(listIndex, cardIndex) ==
    IF hasList(boardData, listIndex) /\ hasCard(At(boardData, listIndex).cards, cardIndex)
    THEN At(At(boardData, listIndex).cards, cardIndex).id
    ELSE undefinedId

moveCardCall ==
    /\ renders(boardData)
    /\ \E sourceListIndex \in listCoordinates, destListIndex \in listCoordinates,
          isAutomated \in BOOLEAN :
       \E sourceCardIndex \in cardCoordinates(sourceListIndex),
          destCardIndex \in cardCoordinates(destListIndex) :
          Settle(moveCard(Machine, sourceListIndex, sourceCardIndex,
                          destListIndex, destCardIndex, isAutomated, 0),
                 Op("moveCard", <<sourceListIndex, sourceCardIndex, destListIndex, destCardIndex>>,
                    cardIdAt(sourceListIndex, sourceCardIndex)))
    /\ UNCHANGED <<cardCounter, automations, filters, now, created, assigned, dueIn, statusOut,
                   storageFull, appearance, uploads>>

deleteCardCall ==
    /\ renders(boardData)
    /\ \E listIndex \in listCoordinates :
       \E cardIndex \in cardCoordinates(listIndex) :
          Settle(deleteCard(Machine, listIndex, cardIndex),
                 Op("deleteCard", <<listIndex, cardIndex>>, cardIdAt(listIndex, cardIndex)))
    /\ UNCHANGED <<cardCounter, automations, filters, now, created, assigned, dueIn, statusOut,
                   storageFull, appearance, uploads>>

deleteListCall ==
    /\ renders(boardData)
    /\ \E listIndex \in listCoordinates :
          Settle(deleteList(Machine, listIndex), Op("deleteList", <<listIndex>>, -1))
    /\ UNCHANGED <<cardCounter, automations, filters, now, created, assigned, dueIn, statusOut,
                   storageFull, appearance, uploads>>

NextApi ==
    \/ steps < MaxApiSteps /\ moveCardCall
    \/ steps < MaxApiSteps /\ deleteCardCall
    \/ steps < MaxApiSteps /\ deleteListCall

SpecApi == Init /\ [][NextApi]_vars

-----------------------------------------------------------------------------
(* SpecRules: a configuration document whose actions name a list, a label   *)
(* and a member that the board does not have                                *)

unknownList == 9
unknownLabel == 9
unknownMember == 9

danglingAutomations ==
    [rules |-> <<
        [id |-> 1, trigger |-> [type |-> "card-move", toListId |-> list2],
         action |-> [type |-> "move-to-list", listId |-> unknownList]],
        [id |-> 2, trigger |-> [type |-> "card-move", toListId |-> list2],
         action |-> [type |-> "add-label", labelId |-> unknownLabel]],
        [id |-> 3, trigger |-> [type |-> "card-move", toListId |-> list2],
         action |-> [type |-> "add-member", memberId |-> unknownMember]],
        [id |-> 4, trigger |-> [type |-> "card-move", toListId |-> list2],
         action |-> [type |-> "set-due-date-complete", completed |-> TRUE]],
        [id |-> 5, trigger |-> [type |-> "card-move", toListId |-> list1],
         action |-> [type |-> "move-to-list", listId |-> list3]],
        [id |-> 6, trigger |-> [type |-> "card-move", toListId |-> list1],
         action |-> [type |-> "add-label", labelId |-> label1]] >>,
     cardButtons |-> <<
        [id |-> 1, action |-> [type |-> "add-label", labelId |-> unknownLabel]] >>]

InitRules ==
    /\ automations = danglingAutomations
    /\ now = NowInit
    /\ dueIn = NoDue
    /\ FirstStart

NextRules ==
    \/ steps < MaxRuleSteps /\ Drop
    \/ steps < MaxRuleSteps /\ handleDeleteList
    \/ steps < MaxRuleSteps /\ executeCustomButton
    \/ handleCardClick
    \/ handleCloseModal

SpecRules == InitRules /\ [][NextRules]_vars

-----------------------------------------------------------------------------
(* SpecQuota: the persist effect when localStorage runs out of room         *)

\* from now on localStorage.setItem throws QuotaExceededError
storageFills ==
    /\ ~storageFull
    /\ storageFull' = TRUE
    /\ UNCHANGED <<boardData, cardCounter, selectedCard, notifications, automations,
                   filters, visibilityMap, storage, now, idCounter, trace, created,
                   assigned, steps, lastOp, dueIn, statusOut, persistLog, appearance, uploads>>

NextQuota ==
    \/ storageFills
    \/ steps < MaxQuotaSteps /\ handleToggleSubscription
    \/ steps < MaxQuotaSteps /\ handleToggleDueComplete
    \/ steps < MaxQuotaSteps /\ handleSetLocation
    \/ steps < MaxQuotaSteps /\ Drop
    \/ handleCardClick
    \/ handleCloseModal

SpecQuota == InitIds /\ [][NextQuota]_vars

-----------------------------------------------------------------------------
(* SpecFiles: uploads, links, covers and comments on the first-start board  *)

\* the files a file input hands over: an image and a document
Files == {[name |-> <<"p">>, type |-> "image"], [name |-> <<"z">>, type |-> "other"]}

\* reader.readAsDataURL(file): a data URL that starts with the file's type
dataUrl(file) == IF file.type = "image" THEN "data:image" ELSE "data:other"

fileToAttachment(id, file) ==
    [id |-> id, url |-> dataUrl(file), name |-> file.name, timestamp |-> now,
     type |-> "file",
     previewUrl |-> IF file.type = "image" THEN dataUrl(file) ELSE "undefined"]

\* the member a "@name" token of a comment names, 0 when it names none
mentionedMember(token) ==
    CASE token = "@Alice" -> member1
      [] token = "@Bob" -> member2
      [] OTHER -> 0

\* mentions.forEach: "You were mentioned ..." for the current user
RECURSIVE notifyMentions(_, _, _, _)
notifyMentions(m, tokens, card, list) ==
    IF tokens = <<>> THEN m
    ELSE LET m1 == IF mentionedMember(Head(tokens)) = CURRENT_USER_ID
                   THEN addNotification(m, <<"mentioned", card.text>>, card, list, FALSE, 0)
                   ELSE m
         IN  notifyMentions(m1, Tail(tokens), card, list)

\* a handler that puts the comment and its activity entry at the end
handleAddCommentLast(m, listIndex, cardIndex, commentText, attachments) ==
    LET list == At(m.board, listIndex)
        card == At(list.cards, cardIndex)
        newComment == [id |-> m.ids, authorId |-> CURRENT_USER_ID, text |-> commentText,
                       timestamp |-> now, attachments |-> attachments]
        card2 == [card EXCEPT !.comments = Append(@, newComment),
                              !.activity = Append(@, createActivity(m.ids + 1,
                                                        <<"commented">>, now))]
    IN  log(notifyMentions(
                log([m EXCEPT !.board = setCards(@, listIndex,
                                            replaceAt(list.cards, cardIndex, card2)),
                              !.ids = @ + 2],
                    "activity", FALSE, 0),
                commentText, card2, list),
            "store", FALSE, 0)

handleAddComment(m, listIndex, cardIndex, commentText, attachments) ==
    LET list == At(m.board, listIndex)
        card == At(list.cards, cardIndex)
        newComment == [id |-> m.ids, authorId |-> CURRENT_USER_ID, text |-> commentText,
                       timestamp |-> now, attachments |-> attachments]
        card1 == [card EXCEPT !.comments = <<newComment>> \o @]
        m1 == [m EXCEPT !.board = setCards(@, listIndex, replaceAt(list.cards, cardIndex, card1)),
                        !.ids = @ + 1]
    IN  \* card.activity.unshift of undefined
        IF "activity" \notin DOMAIN card THEN throw(m1, FALSE, 0)
        ELSE
        LET activityText == IF Len(attachments) > 0 THEN <<"commented", "attached">>
                            ELSE <<"commented">>
            card2 == [card1 EXCEPT !.activity = <<createActivity(m1.ids, activityText, now)>> \o @]
            m2 == log([m1 EXCEPT !.board = setCards(@, listIndex,
                                     replaceAt(list.cards, cardIndex, card2)),
                                 !.ids = @ + 1],
                      "activity", FALSE, 0)
            m3 == notifyMentions(m2, commentText, card2, list)
        IN  log(m3, "store", FALSE, 0)

CommentTexts == {<<"h">>, <<"@Alice", "h">>}

\* CommentForm: the staged attachments and the text are submitted
onAddComment ==
    /\ hasModal
    /\ \E commentText \in CommentTexts :
       \E staged \in {<<>>} \cup { <<fileToAttachment(idCounter, file)>> : file \in Files } :
          Settle(handleAddComment([Machine EXCEPT !.ids = @ + Len(staged)],
                                  selectedCard.listIndex, selectedCard.cardIndex,
                                  commentText, staged),
                 Op("handleAddComment", <<commentText, Len(staged)>>, currentCard.id))
    /\ UNCHANGED <<cardCounter, automations, filters, now, created, assigned, dueIn, statusOut,
                   storageFull, appearance, uploads>>

\* CardModal: onUpdateCard(updates) with one generated id
updateSelectedNew(name, args, updates) ==
    Commit(handleUpdateCard([Machine EXCEPT !.ids = @ + 1],
                            selectedCard.listIndex, selectedCard.cardIndex,
                            updates, FALSE, 0),
           Op(name, args, currentCard.id))

handleFileUpload ==
    /\ hasModal
    /\ \E file \in Files :
          updateSelectedNew("handleFileUpload", <<file.type>>,
              [attachments |-> Append(currentCard.attachments,
                                      fileToAttachment(idCounter, file))])
    /\ UNCHANGED <<cardCounter, automations, filters, now, created, assigned, dueIn, statusOut,
                   storageFull, appearance, uploads>>

handleAddAttachmentLink ==
    /\ hasModal
    /\ updateSelectedNew("handleAddAttachmentLink", <<>>,
          [attachments |-> Append(currentCard.attachments,
                                  [id |-> idCounter, url |-> "https", name |-> <<"k">>,
                                   timestamp |-> now, type |-> "link"])])
    /\ UNCHANGED <<cardCounter, automations, filters, now, created, assigned, dueIn, statusOut,
                   storageFull, appearance, uploads>>

\* the cover file input accepts images
handleCoverImageUpload ==
    /\ hasModal
    /\ \E file \in { f \in Files : f.type = "image" } :
          updateSelected("handleCoverImageUpload", <<>>,
              [cover |-> [currentCard.cover EXCEPT !.imageUrl = dataUrl(file)]])
    /\ UNCHANGED <<cardCounter, automations, filters, now, created, assigned, dueIn, statusOut,
                   storageFull, appearance, uploads>>

\* Checklist.handleFileChange, through handleUpdateChecklist
handleFileChange ==
    /\ hasModal
    /\ \E k \in DOMAIN currentCard.checklists :
       \E j \in DOMAIN currentCard.checklists[k].items :
       \E file \in Files :
          updateSelectedNew("handleFileChange", <<k, j, file.type>>,
              [checklists |-> [currentCard.checklists EXCEPT
                                  ![k].items[j].attachments =
                                      Append(@, fileToAttachment(idCounter, file))]])
    /\ UNCHANGED <<cardCounter, automations, filters, now, created, assigned, dueIn, statusOut,
                   storageFull, appearance, uploads>>

\* a session that opens a card and edits it
NextFiles ==
    \/ steps < MaxFileSteps /\ onAddComment
    \/ steps < MaxFileSteps /\ handleFileUpload
    \/ steps < MaxFileSteps /\ handleAddAttachmentLink
    \/ steps < MaxFileSteps /\ handleCoverImageUpload
    \/ steps < MaxFileSteps /\ handleFileChange
    \/ steps = 0 /\ handleCardClick
    \/ handleCloseModal

SpecFiles == Init /\ [][NextFiles]_vars

-----------------------------------------------------------------------------
(* SpecLegacy: the Mutation API on a board rehydrated from an older record  *)

\* the card fields the spec has back-filled on load
OptionalFields == {"labels", "members", "subscribers", "linkedCards", "checklists",
                   "attachments", "comments", "activity", "customFields", "dueDate",
                   "startDate", "location", "description"}

\* a persisted card that was written without the fields in absent
dropFields(card, absent) == [f \in (DOMAIN card) \ absent |-> card[f]]

legacyDoc(absent) ==
    LET doc == getSanitizedBoardDataForStorage(initialData)
    IN  [l \in DOMAIN doc |->
            [doc[l] EXCEPT !.cards = [k \in DOMAIN @ |-> dropFields(@[k], absent)]]]

\* records of the current version, records without one field, and records
\* with none of the optional fields
AbsentSets == {{}} \cup { {f} : f \in OptionalFields } \cup {OptionalFields}

InitLegacy ==
    /\ automations = defaultAutomations
    /\ idCounter = GenBase + InitialIds
    /\ \E absent \in AbsentSets : AppStart(legacyDoc(absent))

NextLegacy ==
    \/ steps < MaxLegacySteps /\ moveCardCall
    \/ steps < MaxLegacySteps /\ deleteCardCall
    \/ steps < MaxLegacySteps /\ deleteListCall

SpecLegacy == InitLegacy /\ [][NextLegacy]_vars

-----------------------------------------------------------------------------
(* SpecNotify: the notification feed of a session                           *)

\* NotificationsPopover: a notification of the feed is clicked
handleNotificationClick ==
    /\ \E k \in DOMAIN notifications :
          LET notification == notifications[k]
              listIndex == findListById(boardData, notification.listId)
              cardIndex == IF listIndex = -1 THEN -1
                           ELSE findCardIndex(At(boardData, listIndex).cards,
                                              notification.cardId)
          IN  /\ lastOp' = Op("handleNotificationClick", <<k>>, notification.cardId)
              /\ IF listIndex = -1 \/ cardIndex = -1
                 THEN UNCHANGED <<selectedCard, notifications>>
                 ELSE /\ selectedCard' = [listIndex |-> listIndex, cardIndex |-> cardIndex]
                      /\ notifications' =
                            [j \in DOMAIN notifications |->
                                IF notifications[j].id = notification.id
                                THEN [notifications[j] EXCEPT !.read = TRUE]
                                ELSE notifications[j]]
    /\ trace' = <<>>
    /\ UNCHANGED <<boardData, cardCounter, automations, filters, visibilityMap, storage,
                   now, idCounter, created, assigned, steps, dueIn, statusOut,
                   storageFull, persistLog, appearance, uploads>>

markAllNotificationsRead ==
    /\ notifications' = [j \in DOMAIN notifications |->
                            [notifications[j] EXCEPT !.read = TRUE]]
    /\ lastOp' = Op("markAllNotificationsRead", <<>>, -1)
    /\ trace' = <<>>
    /\ UNCHANGED <<boardData, cardCounter, selectedCard, automations, filters,
                   visibilityMap, storage, now, idCounter, created, assigned, steps,
                   dueIn, statusOut, storageFull, persistLog, appearance, uploads>>

NextNotify ==
    \/ steps < MaxNotifySteps /\ Drop
    \/ steps < MaxNotifySteps /\ handleToggleDueComplete
    \/ steps < MaxNotifySteps /\ handleToggleMember
    \/ steps < MaxNotifySteps /\ onAddComment
    \/ handleNotificationClick
    \/ markAllNotificationsRead
    \/ steps = 0 /\ handleCardClick
    \/ handleCloseModal

SpecNotify == InitIds /\ [][NextNotify]_vars

-----------------------------------------------------------------------------
(* SpecLog: comments and activity under the rules that post comments        *)

InitLog ==
    /\ automations = chainAutomations
    /\ now = NowInit
    /\ dueIn = NoDue
    /\ FirstStart

\* a session that opens a card, comments, edits and drags
NextLog ==
    \/ steps < MaxLogSteps /\ Drop
    \/ steps < MaxLogSteps /\ onAddComment
    \/ steps < MaxLogSteps /\ handleToggleLabel
    \/ steps < MaxLogSteps /\ handleToggleDueComplete
    \/ steps = 0 /\ handleCardClick
    \/ handleCloseModal

SpecLog == InitLog /\ [][NextLog]_vars

-----------------------------------------------------------------------------
(* SpecSets: the id collections of a card under toggles, links and rules    *)

\* the cards the link popover offers: not the card itself, not a card it is
\* already linked to
filteredCardsForLinking ==
    { c \in allCards(boardData) :
        c.id # currentCard.id /\ ~includes(currentCard.linkedCards, c.id) }

\* a popover that offers every card of the board
handleAddLinkAny ==
    /\ hasModal
    /\ \E c \in allCards(boardData) :
          updateSelected("handleAddLink", <<c.id>>,
              [linkedCards |-> Append(currentCard.linkedCards, c.id)])
    /\ UNCHANGED <<cardCounter, automations, filters, now, created, assigned, dueIn, statusOut,
                   storageFull, appearance, uploads>>

handleAddLink ==
    /\ hasModal
    /\ \E c \in filteredCardsForLinking :
          updateSelected("handleAddLink", <<c.id>>,
              [linkedCards |-> Append(currentCard.linkedCards, c.id)])
    /\ UNCHANGED <<cardCounter, automations, filters, now, created, assigned, dueIn, statusOut,
                   storageFull, appearance, uploads>>

\* the linked cards the modal shows are those that are still on the board
handleRemoveLink ==
    /\ hasModal
    /\ \E k \in DOMAIN currentCard.linkedCards :
          /\ currentCard.linkedCards[k] \in cardIds(boardData)
          /\ updateSelected("handleRemoveLink", <<currentCard.linkedCards[k]>>,
                [linkedCards |-> filterOut(currentCard.linkedCards,
                                           currentCard.linkedCards[k])])
    /\ UNCHANGED <<cardCounter, automations, filters, now, created, assigned, dueIn, statusOut,
                   storageFull, appearance, uploads>>

NextSets ==
    \/ steps < MaxSetSteps /\ handleToggleLabel
    \/ steps < MaxSetSteps /\ handleToggleMember
    \/ steps < MaxSetSteps /\ handleToggleSubscription
    \/ steps < MaxSetSteps /\ handleAddLink
    \/ steps < MaxSetSteps /\ handleRemoveLink
    \/ steps < MaxSetSteps /\ executeCustomButton
    \/ steps < MaxSetSteps /\ Drop
    \/ handleCardClick
    \/ handleCloseModal

SpecSets == InitLog /\ [][NextSets]_vars

-----------------------------------------------------------------------------
(* SpecTheme: the appearance settings, export, reset, import and reload     *)

\* what the settings controls can set, one field at a time
ThemeUpdates ==
    { [mode |-> "dark"], [sourceColor |-> "#EB5A46"], [radius |-> 0], [radius |-> 16],
      [density |-> "compact"], [fontScale |-> 90], [fontScale |-> 110],
      [reducedMotion |-> TRUE], [reducedMotion |-> FALSE],
      [boardBackground |-> "dots"], [boardWidth |-> "normal"] }

\* the rest of the program while the appearance changes
boardUnchanged ==
    UNCHANGED <<boardData, cardCounter, selectedCard, notifications, automations, filters,
                visibilityMap, storage, now, idCounter, created, assigned, dueIn,
                statusOut, storageFull, persistLog, uploads>>

\* the theme effect: every theme that is set is written to 'mosaic.theme'
setTheme(newTheme, op) ==
    /\ theme' = newTheme
    /\ themeStore' = stringify(newTheme)
    /\ lastOp' = Op(op, <<>>, -1)
    /\ trace' = <<>>

updateTheme ==
    /\ \E updates \in ThemeUpdates :
          /\ spread(theme, updates) # theme
          /\ setTheme(spread(theme, updates), "updateTheme")
    /\ steps' = steps + 1
    /\ UNCHANGED <<themeFile, exportedTheme, customCss, cssStore, customizer, cssAtOpen>>
    /\ boardUnchanged

resetTheme ==
    /\ setTheme(DEFAULT_THEME, "resetTheme")
    /\ customCss' = noCss
    /\ cssStore' = noCss
    /\ exportedTheme' = [exportedTheme EXCEPT !.reset = TRUE]
    /\ UNCHANGED <<themeFile, customizer, cssAtOpen, steps>>
    /\ boardUnchanged

exportTheme ==
    /\ themeFile' = stringify(theme)
    /\ exportedTheme' = [theme |-> theme, reset |-> FALSE]
    /\ lastOp' = Op("exportTheme", <<>>, -1)
    /\ trace' = <<>>
    /\ UNCHANGED <<theme, themeStore, customCss, cssStore, customizer, cssAtOpen, steps>>
    /\ boardUnchanged

\* an import that takes a member of the file only when its value is truthy
keyInTruthy(key, imported) ==
    /\ key \in DOMAIN imported
    /\ key \in {"radius", "fontScale"} => imported[key] # 0
    /\ key = "reducedMotion" => imported[key]

\* key in imported
keyIn(key, imported) == key \in DOMAIN imported

min(a, b) == IF a < b THEN a ELSE b
max(a, b) == IF a > b THEN a ELSE b

\* importTheme, reader.onload: the members of the file that are theme keys,
\* radius and fontScale brought into their ranges when they are truthy
validatedTheme(text) ==
    LET imported == parse(text)
        validKeys == { ThemeKeys[i] : i \in DOMAIN ThemeKeys }
        picked == [key \in { k \in validKeys : keyIn(k, imported) } |-> imported[key]]
    IN  [key \in DOMAIN picked |->
            IF key = "radius" /\ picked[key] # 0 THEN max(0, min(16, picked[key]))
            ELSE IF key = "fontScale" /\ picked[key] # 0 THEN max(90, min(110, picked[key]))
            ELSE picked[key]]

importTheme ==
    /\ themeFile # <<>>
    /\ setTheme(spread(theme, validatedTheme(themeFile)), "importTheme")
    /\ UNCHANGED <<themeFile, exportedTheme, customCss, cssStore, customizer, cssAtOpen, steps>>
    /\ boardUnchanged

\* the page is loaded again: the useTheme initializers run on what the
\* effects last wrote
reloadTheme ==
    /\ setTheme(spread(DEFAULT_THEME, parse(themeStore)), "reloadTheme")
    /\ customCss' = cssStore
    /\ customizer' = [isOpen |-> FALSE, activeSelector |-> "header", localCss |-> noCss]
    /\ UNCHANGED <<themeFile, exportedTheme, cssStore, cssAtOpen, steps>>
    /\ boardUnchanged

NextTheme ==
    \/ steps < MaxThemeSteps /\ updateTheme
    \/ resetTheme
    \/ exportTheme
    \/ importTheme
    \/ reloadTheme

SpecTheme == InitIds /\ [][NextTheme]_vars

-----------------------------------------------------------------------------
(* SpecWatch: updateCard called with updates of the watched fields          *)

\* updates of a card: of one watched field, of several at once, of a field
\* that is not watched, of a field to the value it has, of the subscribers
WatchUpdates(card) ==
    { [description |-> <<"i">>], [description |-> <<"n">>],
      [dueDate |-> [card.dueDate EXCEPT !.completed = ~@]],
      [dueDate |-> Due(NowInit + OneDay, card.dueDate.completed)],
      [dueDate |-> card.dueDate],
      [description |-> <<"n">>, dueDate |-> Due(NowInit + OneDay, ~card.dueDate.completed)],
      [location |-> <<"z">>],
      [subscribers |-> <<>>],
      [subscribers |-> <<CURRENT_USER_ID>>, description |-> <<"n">>] }

updateCardCall ==
    /\ \E listIndex \in 0..(Len(boardData) - 1), isAutomated \in BOOLEAN :
       \E cardIndex \in 0..(Len(At(boardData, listIndex).cards) - 1) :
       \E updates \in WatchUpdates(At(At(boardData, listIndex).cards, cardIndex)) :
          Commit(handleUpdateCard(Machine, listIndex, cardIndex, updates, isAutomated, 0),
                 Op("updateCard", <<listIndex, cardIndex, isAutomated>>,
                    At(At(boardData, listIndex).cards, cardIndex).id))
    /\ UNCHANGED <<cardCounter, automations, filters, now, created, assigned, dueIn, statusOut,
                   storageFull, appearance, uploads>>

NextWatch ==
    \/ steps < MaxWatchSteps /\ updateCardCall

SpecWatch == InitIds /\ [][NextWatch]_vars

-----------------------------------------------------------------------------
(* SpecMove: moveCard and updateCard called with coordinates of the board   *)

moveCardOnBoard ==
    /\ \E sourceListIndex \in 0..(Len(boardData) - 1),
          destListIndex \in 0..(Len(boardData) - 1), isAutomated \in BOOLEAN :
       \E sourceCardIndex \in 0..(Len(At(boardData, sourceListIndex).cards) - 1),
          destCardIndex \in 0..Len(At(boardData, destListIndex).cards) :
          Commit(moveCard(Machine, sourceListIndex, sourceCardIndex,
                          destListIndex, destCardIndex, isAutomated, 0),
                 Op("moveCard", <<sourceListIndex, sourceCardIndex, destListIndex, destCardIndex,
                                  isAutomated>>,
                    cardIdAt(sourceListIndex, sourceCardIndex)))
    /\ UNCHANGED <<cardCounter, automations, filters, now, created, assigned, dueIn, statusOut,
                   storageFull, appearance, uploads>>

\* the label sets an update of a card can carry: one label toggled, two
\* labels added, all removed, none changed
LabelUpdates(card) ==
    { IF includes(card.labels, label2) THEN filterOut(card.labels, label2)
      ELSE Append(card.labels, label2),
      SelectSeq(<<label1, label2, label3, label4, label5>>,
                LAMBDA l : includes(card.labels, l) \/ l \in {label2, label1}),
      <<>>,
      card.labels }

updateLabelsCall ==
    /\ \E listIndex \in 0..(Len(boardData) - 1), isAutomated \in BOOLEAN :
       \E cardIndex \in 0..(Len(At(boardData, listIndex).cards) - 1) :
       \E updates \in { [labels |-> labels] :
                            labels \in LabelUpdates(At(At(boardData, listIndex).cards, cardIndex)) }
                        \cup {[description |-> <<"n">>]} :
          Commit(handleUpdateCard(Machine, listIndex, cardIndex, updates, isAutomated, 0),
                 Op("updateCard", <<listIndex, cardIndex, isAutomated, updates>>,
                    At(At(boardData, listIndex).cards, cardIndex).id))
    /\ UNCHANGED <<cardCounter, automations, filters, now, created, assigned, dueIn, statusOut,
                   storageFull, appearance, uploads>>

NextMove ==
    \/ steps < MaxMoveSteps /\ moveCardOnBoard

SpecMove == Init /\ [][NextMove]_vars

\* SpecTrigger: the calls that emit triggers, under both rule documents
NextTrigger ==
    \/ steps < MaxTriggerSteps /\ moveCardOnBoard
    \/ steps < MaxTriggerSteps /\ updateLabelsCall

SpecTrigger == Init /\ [][NextTrigger]_vars

-----------------------------------------------------------------------------
-----------------------------------------------------------------------------
(* SpecShortIds: a start from a document in which only some cards have a    *)
(* cardShortId                                                              *)

\* the cardShortId of each card of the document, in document order; 0 for a
\* card written without one
ShortIdColumns ==
    { col \in [1..totalCards(initialData) -> 0..MaxShortId] :
        /\ \E k \in DOMAIN col : col[k] = 0
        /\ \E k \in DOMAIN col : col[k] # 0
        /\ \A a, b \in DOMAIN col : a # b /\ col[a] # 0 => col[a] # col[b] }

shortIdDoc(col) ==
    LET doc == getSanitizedBoardDataForStorage(initialData)
    IN  [l \in DOMAIN doc |->
            [doc[l] EXCEPT !.cards = [k \in DOMAIN @ |->
                IF col[cardsBefore(doc, l) + k] = 0
                THEN dropFields(@[k], {"cardShortId"})
                ELSE [@[k] EXCEPT !.cardShortId = col[cardsBefore(doc, l) + k]]]]]

InitShortIds ==
    /\ automations = defaultAutomations
    /\ idCounter = GenBase + InitialIds
    /\ \E col \in ShortIdColumns : AppStart(shortIdDoc(col))

NextShortIds ==
    \/ steps < MaxShortIdSteps /\ handleAddCard
    \/ steps < MaxShortIdSteps /\ Reload

SpecShortIds == InitShortIds /\ [][NextShortIds]_vars

-----------------------------------------------------------------------------
(* SpecCss: the element customizer opened, edited and closed                 *)

Selectors == {"header", ".board"}
CssTexts == {"", "c", "d"}

\* { ...css, [selector]: value }
withRule(css, selector, value) ==
    [s \in (DOMAIN css) \cup {selector} |-> IF s = selector THEN value ELSE css[s]]

\* const { [selector]: _, ...rest } = css
withoutRule(css, selector) == [s \in (DOMAIN css) \ {selector} |-> css[s]]

\* updateCustomCss and the customCss effect: the value set is written to
\* 'mosaic.customCss'; the modal's effect on [isOpen, originalCss] then sets
\* localCss to the new originalCss prop, which is the value just set
onSave(newCss, op) ==
    /\ customCss' = newCss
    /\ cssStore' = newCss
    /\ lastOp' = Op(op, <<>>, -1)
    /\ trace' = <<>>

\* SettingsModal: onOpenElementCustomizer; the modal's hooks start anew, with
\* useState(originalCss) and originalCss = themeManager.customCss
openElementCustomizer ==
    /\ ~customizer.isOpen
    /\ customizer' = [isOpen |-> TRUE, activeSelector |-> "header", localCss |-> customCss]
    /\ cssAtOpen' = customCss
    /\ lastOp' = Op("openElementCustomizer", <<>>, -1)
    /\ trace' = <<>>
    /\ UNCHANGED <<theme, themeStore, themeFile, exportedTheme, customCss, cssStore, steps>>
    /\ boardUnchanged

setActiveSelector ==
    /\ customizer.isOpen
    /\ \E selector \in Selectors \ {customizer.activeSelector} :
          customizer' = [customizer EXCEPT !.activeSelector = selector]
    /\ lastOp' = Op("setActiveSelector", <<>>, -1)
    /\ trace' = <<>>
    /\ UNCHANGED <<theme, themeStore, themeFile, exportedTheme, customCss, cssStore, cssAtOpen,
                   steps>>
    /\ boardUnchanged

handleCssChange ==
    /\ customizer.isOpen
    /\ \E value \in CssTexts :
          LET newCss == withRule(customizer.localCss, customizer.activeSelector, value)
          IN  /\ orDefault(customizer.localCss, customizer.activeSelector, "") # value
              /\ onSave(newCss, "handleCssChange")
              /\ customizer' = [customizer EXCEPT !.localCss = newCss]
    /\ steps' = steps + 1
    /\ UNCHANGED <<theme, themeStore, themeFile, exportedTheme, cssAtOpen>>
    /\ boardUnchanged

handleResetElementCss ==
    /\ customizer.isOpen
    /\ LET rest == withoutRule(customizer.localCss, customizer.activeSelector)
       IN  /\ onSave(rest, "handleResetElementCss")
           /\ customizer' = [customizer EXCEPT !.localCss = rest]
    /\ steps' = steps + 1
    /\ UNCHANGED <<theme, themeStore, themeFile, exportedTheme, cssAtOpen>>
    /\ boardUnchanged

\* "Save and Close"
handleSave ==
    /\ customizer.isOpen
    /\ onSave(customizer.localCss, "handleSave")
    /\ customizer' = [customizer EXCEPT !.isOpen = FALSE]
    /\ UNCHANGED <<theme, themeStore, themeFile, exportedTheme, cssAtOpen, steps>>
    /\ boardUnchanged

\* the originalCss prop of the render the handler was made in:
\* originalCss={themeManager.customCss}
originalCss == customCss

\* Cancel, the close button, a press outside the modal
handleClose ==
    /\ customizer.isOpen
    /\ onSave(originalCss, "handleClose")
    /\ customizer' = [customizer EXCEPT !.isOpen = FALSE]
    /\ UNCHANGED <<theme, themeStore, themeFile, exportedTheme, cssAtOpen, steps>>
    /\ boardUnchanged

\* the Escape key: setElementCustomizerOpen(false)
escapeCustomizer ==
    /\ customizer.isOpen
    /\ customizer' = [customizer EXCEPT !.isOpen = FALSE]
    /\ lastOp' = Op("Escape", <<>>, -1)
    /\ trace' = <<>>
    /\ UNCHANGED <<theme, themeStore, themeFile, exportedTheme, customCss, cssStore, cssAtOpen,
                   steps>>
    /\ boardUnchanged

NextCss ==
    \/ openElementCustomizer
    \/ setActiveSelector
    \/ steps < MaxCssSteps /\ handleCssChange
    \/ steps < MaxCssSteps /\ handleResetElementCss
    \/ handleSave
    \/ handleClose
    \/ escapeCustomizer

SpecCss == InitIds /\ [][NextCss]_vars

-----------------------------------------------------------------------------
(* SpecUploads: file uploads that are read while the session goes on        *)

\* the handler up to its await: what its closure holds of the render it was
\* made in (the selected coordinates, card.attachments, card.checklists)
pendingUpload(kind, file, k, j) ==
    [kind |-> kind, file |-> file, k |-> k, j |-> j,
     listIndex |-> selectedCard.listIndex, cardIndex |-> selectedCard.cardIndex,
     cardId |-> currentCard.id,
     attachments |-> currentCard.attachments, checklists |-> currentCard.checklists,
     began |-> steps + 1, ended |-> 0, attachmentId |-> 0]

startUpload(upload) ==
    /\ Len(uploads) < MaxUploads
    /\ uploads' = Append(uploads, upload)
    /\ steps' = steps + 1
    /\ lastOp' = Op("startUpload", <<upload.kind>>, upload.cardId)
    /\ trace' = <<>>
    /\ UNCHANGED <<boardData, cardCounter, selectedCard, notifications, automations, filters,
                   visibilityMap, storage, now, idCounter, created, assigned, dueIn,
                   statusOut, storageFull, persistLog, appearance>>

\* CardModal.handleFileUpload: const file = e.target.files?.[0]; await fileToAttachment(file)
startFileUpload ==
    /\ hasModal
    /\ \E file \in Files : startUpload(pendingUpload("card", file, 0, 0))

\* Checklist.handleFileChange: await fileToAttachment(file)
startFileChange ==
    /\ hasModal
    /\ \E k \in DOMAIN currentCard.checklists :
       \E j \in DOMAIN currentCard.checklists[k].items :
       \E file \in Files : startUpload(pendingUpload("item", file, k, j))

\* the updates the handler builds after its await, from what its closure holds
uploadUpdates(upload, newAttachment) ==
    IF upload.kind = "card"
    THEN [attachments |-> Append(upload.attachments, newAttachment)]
    ELSE [checklists |-> [upload.checklists EXCEPT
                             ![upload.k].items[upload.j].attachments =
                                 Append(@, newAttachment)]]

\* reader.onload of one of the files being read: the promise resolves and the
\* handler goes on with the onUpdateCard of the render it was made in
finishUpload ==
    /\ \E i \in DOMAIN uploads :
          LET upload == uploads[i]
          IN  /\ upload.ended = 0
              /\ Commit(handleUpdateCard([Machine EXCEPT !.ids = @ + 1],
                                         upload.listIndex, upload.cardIndex,
                                         uploadUpdates(upload,
                                                       fileToAttachment(idCounter, upload.file)),
                                         FALSE, 0),
                        Op("finishUpload", <<i>>, upload.cardId))
              /\ uploads' = [uploads EXCEPT ![i].ended = steps + 1,
                                            ![i].attachmentId = idCounter]
    /\ UNCHANGED <<cardCounter, automations, filters, now, created, assigned, dueIn, statusOut,
                   storageFull, appearance>>

NextUploads ==
    \/ startFileUpload
    \/ startFileChange
    \/ finishUpload
    \/ steps = 0 /\ handleCardClick
    \/ handleCloseModal

SpecUploads == InitIds /\ [][NextUploads]_vars

(* Observations *)

occurrences(board, cardId) ==
    Cardinality({ p \in UNION { { <<l, k>> : k \in DOMAIN board[l].cards } : l \in DOMAIN board } :
                     board[p[1]].cards[p[2]].id = cardId })

events(tr, e) == { k \in DOMAIN tr : tr[k].ev = e }

listIdOf(board, cardId) == At(board, findListIndex(board, cardId)).id

hasRule(trig, act) ==
    \E k \in DOMAIN automations.rules :
        automations.rules[k].trigger = trig /\ automations.rules[k].action = act

-----------------------------------------------------------------------------
(* Claims checked under Spec *)

\* C1: whenever a handler moves a card (a user drop, or a move made by a rule
\* or a card button), the total number of cards across all lists is what it
\* was before and the card the event is about is in exactly one list, once.
C1_MoveAtomicity ==
    [][events(trace', "insert") # {} =>
          /\ totalCards(boardData') = totalCards(boardData)
          /\ occurrences(boardData', lastOp'.cardId) = 1]_vars

\* a user drop into list-2 that a rule carried on to list-3: two moves of the
\* same card in one event
C1_Witness ==
    /\ lastOp.op = "handleDrop"
    /\ Cardinality(events(trace, "insert")) = 2
    /\ listIdOf(boardData, lastOp.cardId) = list3

\* C5: one user event traverses the rule list at most once, and nothing a
\* rule does enters runAutomations again: no step of the event runs deeper
\* than the one pass.
C5_OnePass ==
    /\ Cardinality(events(trace, "pass")) <= 1
    /\ events(trace, "overflow") = {}
    /\ \A k \in DOMAIN trace : trace[k].depth <= 1

\* a pass in which a rule moved the card into list-3, the trigger list of
\* another rule, and a rule added label-2, the trigger label of further rules
C5_Witness ==
    /\ automations = chainAutomations
    /\ lastOp.op = "handleDrop"
    /\ \E k \in events(trace, "insert") : trace[k].auto
    /\ Cardinality(events(trace, "store")) >= 1
    /\ includes(cardById(boardData, lastOp.cardId).labels, label2)

\* C6: a mutation made with isAutomated = true adds no notification, no
\* move activity entry and emits no trigger.
C6_AutomatedIsSilent ==
    \A k \in DOMAIN trace :
        trace[k].auto => trace[k].ev \notin {"notify", "activity", "trigger"}

\* an automated update completed the due date of a card the current user
\* watches, or added the current user as a member
C6_Witness ==
    /\ \E k \in events(trace, "store") : trace[k].auto
    /\ \/ /\ lastOp.op = "handleDrop"
          /\ includes(cardById(boardData, lastOp.cardId).subscribers, CURRENT_USER_ID)
          /\ cardById(boardData, lastOp.cardId).dueDate.completed
          /\ lastOp.cardId = cardId1
       \/ /\ lastOp.op = "executeCustomButton"
          /\ automations = chainAutomations
          /\ lastOp.args = <<1>>
          /\ lastOp.cardId \in {cardId3, cardId4}

movedIntoDone(op, board) ==
    /\ op.op = "handleDrop"
    /\ op.args[1] # op.args[3]
    /\ At(board, op.args[3]).id = list3

\* C7: with a rule CardMoved(list-3) -> SetDueComplete(true), a user drop of
\* a card the current user watches, with a due date that is not completed,
\* from another list into list-3 leaves the card in list-3 with its due date
\* completed and exactly one more notification.
C7_MoveToDone ==
    [][(/\ hasRule([type |-> "card-move", toListId |-> list3],
                   [type |-> "set-due-date-complete", completed |-> TRUE])
        /\ movedIntoDone(lastOp', boardData)
        /\ LET X == cardById(boardData, lastOp'.cardId)
           IN  /\ includes(X.subscribers, CURRENT_USER_ID)
               /\ X.dueDate.hasTs
               /\ ~X.dueDate.completed)
       => /\ listIdOf(boardData', lastOp'.cardId) = list3
          /\ cardById(boardData', lastOp'.cardId).dueDate.completed
          /\ Len(notifications') = Len(notifications) + 1]_vars

\* card 1 (watched, due in five days) dropped into list-3
C7_Witness ==
    /\ movedIntoDone(lastOp, boardData)
    /\ lastOp.cardId = cardId1
    /\ cardById(boardData, cardId1).dueDate.completed
    /\ Len(notifications) = 1
    /\ events(trace, "notify") # {}

sameCoordinates(op) ==
    /\ op.op = "handleDrop"
    /\ op.args[1] = op.args[3]
    /\ op.args[2] = op.args[4]

\* C8: a moveCard whose source and destination coordinates are the same
\* changes no list, no activity log, no notification and not the selected
\* card, and evaluates no rule.
C8_NoOpMove ==
    [][sameCoordinates(lastOp') =>
          /\ boardData' = boardData
          /\ notifications' = notifications
          /\ selectedCard' = selectedCard
          /\ trace' = <<>>]_vars

\* a card of list-2 dropped where it was, a card being selected, under the
\* rules that act on a move into list-2
C8_Witness ==
    /\ sameCoordinates(lastOp)
    /\ automations = chainAutomations
    /\ At(boardData, lastOp.args[3]).id = list2
    /\ selectedCard # NoSel

-----------------------------------------------------------------------------
(* Claims checked under SpecDrop *)

sameListDrop(op) == op.op = "handleDrop" /\ op.args[1] = op.args[3]

idsOf(cards) == [k \in DOMAIN cards |-> cards[k].id]

\* C2 as amended: a drop on the card's own list, from index i with the target
\* index j computed by handleDrop later than i, leaves the card immediately
\* before the card that was at index j (last when j is the list length),
\* because handleDrop decrements j before it calls moveCard; moveCard itself
\* inserts at the index it is given; all other cards keep their order.
C2_DropIndexLaw ==
    [][sameListDrop(lastOp') =>
          LET before == At(boardData, lastOp'.args[1]).cards
              after == At(boardData', lastOp'.args[1]).cards
              id == lastOp'.cardId
              i == lastOp'.args[2]
              k == lastOp'.args[4]
              j == lastOp'.args[5]
          IN  /\ i < j /\ j < Len(before) =>
                    findCardIndex(after, id) + 1 = findCardIndex(after, At(before, j).id)
              /\ i < j /\ j = Len(before) => findCardIndex(after, id) = Len(after) - 1
              /\ findCardIndex(after, id) = k
              /\ SelectSeq(idsOf(after), LAMBDA x : x # id)
                    = SelectSeq(idsOf(before), LAMBDA x : x # id)]_vars

\* the first card of a list dropped before a card further down
C2_Witness ==
    /\ sameListDrop(lastOp)
    /\ lastOp.args[2] + 1 < lastOp.args[5]
    /\ lastOp.args[5] < Len(At(boardData, lastOp.args[1]).cards)
    /\ events(trace, "insert") # {}

\* C2 as stated: moveCard on one list from index i to a later index j leaves
\* the card immediately before the card that was at index j.
C2_MoveCardIndexLaw ==
    [][sameListDrop(lastOp') =>
          LET before == At(boardData, lastOp'.args[1]).cards
              after == At(boardData', lastOp'.args[1]).cards
              id == lastOp'.cardId
              i == lastOp'.args[2]
              j == lastOp'.args[4]
          IN  i < j /\ j < Len(before) =>
                 findCardIndex(after, id) + 1 = findCardIndex(after, At(before, j).id)]_vars

-----------------------------------------------------------------------------
(* Claims checked under SpecIds *)

strictlyIncreasing(seq) == \A a, b \in DOMAIN seq : a < b => seq[a] < seq[b]

noRepeat(seq) == \A a, b \in DOMAIN seq : a # b => seq[a] # seq[b]

\* C3: within one session the shortIds handed out by handleAddCard are
\* strictly increasing, whatever was deleted in between, and each card on the
\* board carries the shortId it was created with.
C3_ShortIdsIncrease ==
    /\ strictlyIncreasing(created)
    /\ lastOp.op = "handleAddCard" =>
          cardById(boardData, lastOp.cardId).cardShortId = created[Len(created)]

\* a card created after the card created before it was deleted
C3_Witness ==
    /\ lastOp.op = "handleAddCard"
    /\ Len(created) = 2
    /\ \A c \in allCards(boardData) : c.cardShortId # created[1]

\* C4: over any number of sessions no shortId is handed out twice.
C4_NeverReused == noRepeat(assigned)

-----------------------------------------------------------------------------
(* Claims checked under SpecVis *)

range(seq) == { seq[k] : k \in DOMAIN seq }

sameLetter(x, y) ==
    \/ x = y
    \/ {x, y} \in {{"a", "A"}, {"b", "B"}}

\* q occurs in text at some offset, letter case ignored
occursIgnoringCase(q, text) ==
    \E off \in 0..(Len(text) - Len(q)) :
        \A k \in DOMAIN q : sameLetter(q[k], text[off + k])

visibleAsSpecified(card, f, t) ==
    IF f.query = <<>> /\ f.members = <<>> /\ f.labels = <<>> /\ f.dueDate = "any"
    THEN TRUE
    ELSE /\ \/ f.query = <<>>
            \/ occursIgnoringCase(f.query, card.text)
            \/ occursIgnoringCase(f.query, card.description)
         /\ \/ f.members = <<>>
            \/ noMembers \in range(f.members) /\ card.members = <<>>
            \/ noMembers \notin range(f.members)
                  /\ range(card.members) \cap range(f.members) # {}
         /\ \/ f.labels = <<>>
            \/ noLabels \in range(f.labels) /\ card.labels = <<>>
            \/ noLabels \notin range(f.labels)
                  /\ range(card.labels) \cap range(f.labels) # {}
         /\ \/ f.dueDate = "any"
            \/ f.dueDate = getDueDateStatus(card.dueDate, t)

onlyOverdue == [DefaultFilters EXCEPT !.dueDate = "overdue"]

\* C9: the visibility map gives every card the value the rule of the four
\* filter dimensions gives it, every card being visible under the default
\* filter; under the filter 'overdue' alone A (no due date) is hidden,
\* B (due yesterday) is visible and C (due yesterday, completed) is hidden.
C9_Visibility ==
    /\ DOMAIN visibilityMap = cardIds(boardData)
    /\ \A c \in allCards(boardData) :
          visibilityMap[c.id] = visibleAsSpecified(c, filters, now)
    /\ filters = onlyOverdue =>
          /\ ~visibilityMap[cardA]
          /\ visibilityMap[cardB]
          /\ ~visibilityMap[cardC]

\* the filter 'overdue' together with a query in another letter case than
\* the title it matches, and a member filter the fourth card passes
C9_Witness ==
    /\ filters.dueDate = "overdue"
    /\ filters.query = <<"A", "b">>
    /\ filters.members = <<member1>>
    /\ visibilityMap[cardD]
    /\ ~visibilityMap[cardB]

-----------------------------------------------------------------------------
(* Claims checked under SpecDue *)

statusAsSpecified(dueDate, t) ==
    IF ~dueDate.hasTs THEN "none"
    ELSE IF dueDate.completed THEN "complete"
    ELSE IF dueDate.timestamp < t THEN "overdue"
    ELSE IF dueDate.timestamp < t + OneDay THEN "due-soon"
    ELSE "none"

\* C10: the status of a due date is 'none' without a timestamp, else
\* 'complete' when completed, else 'overdue' before now, else 'due-soon'
\* within a day, else 'none'; so a completed due date with a timestamp in
\* the past is 'complete', whatever the timestamp.
C10_DueStatusLaw ==
    statusOut # "unset" =>
        /\ statusOut = statusAsSpecified(dueIn, now)
        /\ dueIn.hasTs /\ dueIn.completed /\ dueIn.timestamp < now => statusOut = "complete"

-----------------------------------------------------------------------------
(* Claims checked under SpecClock *)

\* C11: visibility is a function of the board and the filters alone: a
\* recomputation that finds the board and the filters as they were gives
\* every card the visibility it had, at whatever moment it runs.
C11_VisibilityPure ==
    [][boardData' = boardData /\ filters' = filters
          => visibilityMap' = visibilityMap]_vars

-----------------------------------------------------------------------------
(* Claims checked under Spec: the order of the steps of one event *)

stored(tr, k) == \E j \in 1..(k - 1) : tr[j].ev \in {"store", "insert"}

\* C12: within a user's updateCard or moveCard the board store is updated
\* first, then notifications are added, then triggers are dispatched: no
\* notification is added before the store holds the mutation, and no trigger
\* is dispatched before the notifications.
C12_StoreNotifyTrigger ==
    \A k \in DOMAIN trace :
        /\ trace[k].ev = "notify" => stored(trace, k)
        /\ trace[k].ev = "trigger" =>
              /\ stored(trace, k)
              /\ \A j \in events(trace, "notify") : j < k

-----------------------------------------------------------------------------
(* Claims checked under SpecApi *)

\* the call names a list or a card that the board before the call lacks
notFound(op, board) ==
    \/ /\ op.op = "deleteList"
       /\ ~hasList(board, op.args[1])
    \/ /\ op.op = "deleteCard"
       /\ op.cardId = undefinedId
    \/ /\ op.op = "moveCard"
       /\ op.cardId = undefinedId \/ ~hasList(board, op.args[3])

sourcePastEnd(op, board) ==
    /\ op.op = "moveCard"
    /\ hasList(board, op.args[1])
    /\ hasList(board, op.args[3])
    /\ op.cardId = undefinedId

\* C13: deleteList, deleteCard and moveCard called with a list or card
\* coordinate that does not exist leave lists, cards, activity logs and
\* notifications as they were and raise no error; moveCard with a source
\* index past the end of the source list inserts nothing.
C13_NotFoundIsNoOp ==
    [][notFound(lastOp', boardData) =>
          /\ boardData' = boardData
          /\ notifications' = notifications
          /\ events(trace', "throw") = {}
          /\ sourcePastEnd(lastOp', boardData) => totalCards(boardData') = totalCards(boardData)]_vars

-----------------------------------------------------------------------------
(* Claims checked under SpecRules *)

droppedInto(op, board, listId) ==
    /\ op.op = "handleDrop"
    /\ op.args[1] # op.args[3]
    /\ At(board, op.args[3]).id = listId

\* C14: when the rules matched by a move into list-2 name a list, a label
\* and a member that do not exist, those actions are skipped and leave the
\* card as it is (it stays in list-2, gains no label and no member), and the
\* other matching rule is still applied (its due date is completed).
C14_InvalidActionSkipped ==
    [][droppedInto(lastOp', boardData, list2) =>
          LET before == cardById(boardData, lastOp'.cardId)
              after == cardById(boardData', lastOp'.cardId)
          IN  /\ listIdOf(boardData', lastOp'.cardId) = list2
              /\ after.labels = before.labels
              /\ after.members = before.members
              /\ after.dueDate.completed]_vars

-----------------------------------------------------------------------------
(* Claims checked under SpecQuota *)

\* C15: when a write of the board fails, the user is warned once in the
\* session, the persisted key is cleared and the write retried once, and
\* the mutation behind the write still takes effect in memory.
C15_WarnOnceRetryOnce ==
    /\ Cardinality({ k \in DOMAIN persistLog : persistLog[k] = "alert" }) <= 1
    /\ \A k \in DOMAIN persistLog :
          persistLog[k] = "QuotaExceeded" =>
              /\ k + 2 <= Len(persistLog)
              /\ persistLog[k + 1] = "removeItem"
              /\ persistLog[k + 2] = "setItem"

\* C15, the warning alone: at most one warning in a session
C15_WarnOnce ==
    Cardinality({ k \in DOMAIN persistLog : persistLog[k] = "alert" }) <= 1

\* what the spec keeps of a file attachment
keptOfFile(att) == [id |-> att.id, name |-> att.name, timestamp |-> att.timestamp,
                    type |-> att.type]

\* a persisted attachment sequence against the one in memory
attachmentsAsSpecified(persisted, inMemory) ==
    /\ Len(persisted) = Len(inMemory)
    /\ \A k \in DOMAIN inMemory :
          IF inMemory[k].type = "file"
          THEN /\ DOMAIN persisted[k] = {"id", "name", "timestamp", "type"}
               /\ persisted[k] = keptOfFile(inMemory[k])
          ELSE persisted[k] = inMemory[k]

cardAsSpecified(persisted, inMemory) ==
    /\ persisted.id = inMemory.id
    /\ persisted.cardShortId = inMemory.cardShortId
    /\ attachmentsAsSpecified(persisted.attachments, inMemory.attachments)
    /\ Len(persisted.comments) = Len(inMemory.comments)
    /\ \A k \in DOMAIN inMemory.comments :
          attachmentsAsSpecified(persisted.comments[k].attachments,
                                 inMemory.comments[k].attachments)
    /\ Len(persisted.checklists) = Len(inMemory.checklists)
    /\ \A k \in DOMAIN inMemory.checklists :
          /\ Len(persisted.checklists[k].items) = Len(inMemory.checklists[k].items)
          /\ \A j \in DOMAIN inMemory.checklists[k].items :
                attachmentsAsSpecified(persisted.checklists[k].items[j].attachments,
                                       inMemory.checklists[k].items[j].attachments)
    /\ inMemory.cover.imageUrl = "data:image" => persisted.cover.imageUrl = "undefined"
    /\ inMemory.cover.imageUrl # "data:image" => persisted.cover = inMemory.cover

\* every attachment of a card, at its three levels
attachmentsOf(card) ==
    { card.attachments[k] : k \in DOMAIN card.attachments }
    \cup UNION { { card.comments[k].attachments[j] : j \in DOMAIN card.comments[k].attachments } :
                 k \in DOMAIN card.comments }
    \cup UNION { UNION { { card.checklists[k].items[j].attachments[i] :
                             i \in DOMAIN card.checklists[k].items[j].attachments } :
                         j \in DOMAIN card.checklists[k].items } :
                 k \in DOMAIN card.checklists }

keepsPayloads(board) ==
    \A card \in allCards(board) : \A att \in attachmentsOf(card) :
        att.type = "file" => "url" \in DOMAIN att /\ att.url \in {"data:image", "data:other"}

\* C16: the persisted document has the lists and cards of the board in the
\* same order with the same ids and shortIds; every file attachment at card,
\* comment and checklist-item level keeps exactly id, name, timestamp and
\* kind; every link attachment is unchanged; an uploaded cover image is
\* removed; and the board in memory keeps its payloads
C16_Sanitized ==
    /\ Len(storage) = Len(boardData)
    /\ \A l \in DOMAIN boardData :
          /\ storage[l].id = boardData[l].id
          /\ Len(storage[l].cards) = Len(boardData[l].cards)
          /\ \A k \in DOMAIN boardData[l].cards :
                cardAsSpecified(storage[l].cards[k], boardData[l].cards[k])
    /\ keepsPayloads(boardData)

\* a card that holds an uploaded file, a comment with an uploaded file, a
\* checklist item with an uploaded file, a link and an uploaded cover
C16_Witness ==
    \E card \in allCards(boardData) :
        /\ \E k \in DOMAIN card.attachments : card.attachments[k].type = "file"
        /\ \E k \in DOMAIN card.attachments : card.attachments[k].type = "link"
        /\ \E k \in DOMAIN card.comments : card.comments[k].attachments # <<>>
        /\ \E k \in DOMAIN card.checklists : \E j \in DOMAIN card.checklists[k].items :
              card.checklists[k].items[j].attachments # <<>>
        /\ card.cover.imageUrl = "data:image"
        /\ storage # boardData

\* C17, the back-fill alone: after a load every card has every optional
\* field
C17_Backfilled ==
    lastOp.op = "init" => \A card \in allCards(boardData) : OptionalFields \subseteq DOMAIN card

\* C17: a moveCard that names a card of the rehydrated board and a list of
\* the board does not stop at an error
C17_RehydratedMoveSucceeds ==
    lastOp.op = "moveCard" /\ lastOp.cardId # undefinedId
                           /\ hasList(boardData, lastOp.args[3])
        => \A k \in DOMAIN trace : trace[k].ev # "throw"

\* the fields of a notification that never change
sameButRead(n1, n2) ==
    /\ n1.id = n2.id /\ n1.text = n2.text /\ n1.cardId = n2.cardId
    /\ n1.listId = n2.listId /\ n1.timestamp = n2.timestamp

\* C18: the feed only grows; new notifications are unread and come first, in
\* front of the older ones in their order; an older notification changes
\* only in read, from false to true, and only by a click on a notification
\* or by mark-all-read
C18_FeedLifecycle ==
    [][LET added == Len(notifications') - Len(notifications)
       IN  /\ added >= 0
           /\ \A k \in 1..added : notifications'[k].read = FALSE
           /\ \A k \in DOMAIN notifications :
                 /\ sameButRead(notifications'[k + added], notifications[k])
                 /\ notifications[k].read => notifications'[k + added].read
                 /\ notifications'[k + added].read # notifications[k].read
                       => lastOp'.op \in {"handleNotificationClick", "markAllNotificationsRead"}
      ]_vars

\* a notification arrived after an older one was read by a click
C18_Witness ==
    /\ Len(notifications) >= 2
    /\ ~notifications[1].read
    /\ notifications[Len(notifications)].read
    /\ \E k \in DOMAIN trace : trace[k].ev = "notify"

\* old is what is left of new after its first entries
isSuffix(old, new) ==
    /\ Len(old) <= Len(new)
    /\ SubSeq(new, Len(new) - Len(old) + 1, Len(new)) = old

\* C19: whatever the operation (user comment, automated post-comment,
\* cross-list move, card update), the comments and the activity of a card
\* that were there stay, in their order, behind the entries that were added
C19_PrependOnly ==
    [][\A id \in cardIds(boardData) \cap cardIds(boardData') :
          /\ isSuffix(cardById(boardData, id).comments, cardById(boardData', id).comments)
          /\ isSuffix(cardById(boardData, id).activity, cardById(boardData', id).activity)
      ]_vars

\* a card that the user commented and then moved, on which a rule posted a
\* comment: the automated comment in front of the user's, the move in front
\* of the comment's activity entry
C19_Witness ==
    \E card \in allCards(boardData) :
        /\ Len(card.comments) >= 2
        /\ card.comments[1].authorId = automationBot
        /\ card.comments[2].authorId = CURRENT_USER_ID
        /\ Len(card.activity) >= 3
        /\ card.activity[1].text[1] = "moved"
        /\ card.activity[2].text[1] = "commented"

\* C20: on every card of the board, labels, members, subscribers and
\* linkedCards hold no id twice
C20_NoDuplicates ==
    \A card \in allCards(boardData) :
        /\ noRepeat(card.labels)
        /\ noRepeat(card.members)
        /\ noRepeat(card.subscribers)
        /\ noRepeat(card.linkedCards)

\* a linked card on which the user added a label whose rule adds a member
\* the card already has
C20_Witness ==
    /\ lastOp.op = "handleToggleLabel"
    /\ \E k \in DOMAIN trace : trace[k].ev = "match"
    /\ \E card \in allCards(boardData) :
          /\ card.id = lastOp.cardId
          /\ includes(card.labels, label2)
          /\ includes(card.members, member1)
          /\ Len(card.linkedCards) >= 1
          /\ Len(card.subscribers) >= 1

\* the cards of a list a card can be dropped on: the visible ones, without
\* the card that is dragged
dropTargets(list, vis, draggedId) ==
    SelectSeq(list.cards, LAMBDA c : vis[c.id] /\ c.id # draggedId)

\* C21: the index handleDrop computes is the position, in the full card
\* sequence of the list, of the drop target the pointer chose (the first
\* visible card, other than the dragged one, whose midpoint is below the
\* pointer), or the list length when it chose none
C21_DropPlacement ==
    [][lastOp'.op = "handleDrop" =>
          LET list == At(boardData, lastOp'.args[3])
              targets == dropTargets(list, visibilityMap, lastOp'.cardId)
              chosen == lastOp'.args[6]
          IN  lastOp'.args[5] = IF chosen = Len(targets) THEN Len(list.cards)
                                ELSE findCardIndex(list.cards, At(targets, chosen).id)]_vars

-----------------------------------------------------------------------------
(* Claims checked under SpecTheme *)

\* C22: an import of the exported file gives every theme field the value it
\* had at the export, whatever was reset or changed in between; and a reload
\* leaves the theme as it was
C22_ThemeRoundTrip ==
    [][/\ lastOp'.op = "importTheme" =>
             \A i \in DOMAIN ThemeKeys : theme'[ThemeKeys[i]] = exportedTheme.theme[ThemeKeys[i]]
       /\ lastOp'.op = "reloadTheme" => theme' = theme
      ]_vars

\* a theme with radius 0 and full motion, exported, reset and imported
C22_Witness ==
    /\ lastOp.op = "importTheme"
    /\ exportedTheme.reset
    /\ theme.radius = 0
    /\ theme.mode = "dark"
    /\ theme = exportedTheme.theme

-----------------------------------------------------------------------------
(* Claims checked under SpecWatch *)

WatchTexts == {"Description was updated", "Due date was changed",
               "Due date was marked complete", "Due date was marked incomplete"}

\* the watch notifications among the first n of a feed
watchNotifications(feed, n) ==
    { k \in 1..n : feed[k].text[1] \in WatchTexts }

watchedFieldDiffers(old, new) ==
    \/ old.description # new.description
    \/ old.dueDate.hasTs # new.dueDate.hasTs
    \/ old.dueDate.hasTs /\ old.dueDate.timestamp # new.dueDate.timestamp
    \/ old.dueDate.completed # new.dueDate.completed

\* C23: a non-automated updateCard adds exactly one watch notification when
\* a watched field differs and the current user is a subscriber of the
\* card, and none otherwise
C23_OneWatchNotification ==
    [][lastOp'.op = "updateCard" /\ ~lastOp'.args[3] =>
          LET old == At(At(boardData, lastOp'.args[1]).cards, lastOp'.args[2])
              new == At(At(boardData', lastOp'.args[1]).cards, lastOp'.args[2])
              added == Len(notifications') - Len(notifications)
              count == Cardinality(watchNotifications(notifications', added))
          IN  IF watchedFieldDiffers(old, new) /\ includes(new.subscribers, CURRENT_USER_ID)
              THEN count = 1
              ELSE count = 0]_vars

\* the description and the due date of a watched card changed in one update
C23_Witness ==
    /\ lastOp.op = "updateCard" /\ ~lastOp.args[3]
    /\ events(trace, "notify") # {}
    /\ Len(notifications) >= 1
    /\ notifications[1].text[1] = "Description was updated"
    /\ notifications[1].cardId = lastOp.cardId
    /\ \E card \in allCards(boardData) :
          /\ card.id = lastOp.cardId
          /\ card.description = <<"n">>
          /\ card.dueDate = Due(NowInit + OneDay, TRUE)

-----------------------------------------------------------------------------
(* Claims checked under SpecMove *)

\* a moveCard of a card of the board to a list of the board, at other
\* coordinates than its own
realMove(op, board) ==
    /\ op.op = "moveCard"
    /\ op.cardId # undefinedId
    /\ hasList(board, op.args[3])
    /\ ~(op.args[1] = op.args[3] /\ op.args[2] = op.args[4])

\* C24: a non-automated move between two different lists puts exactly one
\* 'moved from X to Y' entry in front of the card's activity and adds one
\* move notification iff the current user watches the card; a move within
\* one list and an automated move add no activity entry and no notification
C24_MoveActivity ==
    [][realMove(lastOp', boardData) =>
          LET old == cardById(boardData, lastOp'.cardId)
              new == cardById(boardData', lastOp'.cardId)
              sourceList == At(boardData, lastOp'.args[1])
              destList == At(boardData, lastOp'.args[3])
              isAutomated == lastOp'.args[5]
              added == Len(notifications') - Len(notifications)
          IN  IF ~isAutomated /\ lastOp'.args[1] # lastOp'.args[3]
              THEN /\ Len(new.activity) = Len(old.activity) + 1
                   /\ Tail(new.activity) = old.activity
                   /\ new.activity[1].text = <<"moved", sourceList.title, destList.title>>
                   /\ added = IF includes(old.subscribers, CURRENT_USER_ID) THEN 1 ELSE 0
                   /\ added = 1 => notifications'[1].text[1] = "moved"
              ELSE /\ new.activity = old.activity
                   /\ added = 0]_vars

\* a watched card moved by the user to another list, where a rule moved it on
C24_Witness ==
    /\ realMove(lastOp, boardData)
    /\ lastOp.args[1] # lastOp.args[3]
    /\ \E k \in DOMAIN trace : trace[k].ev = "notify"
    /\ \E k \in DOMAIN trace : trace[k].ev = "remove" /\ trace[k].auto
    /\ \E card \in allCards(boardData) :
          card.id = lastOp.cardId /\ card.activity[1].text[1] = "moved"

-----------------------------------------------------------------------------
(* Claims checked under SpecTrigger *)

\* what the rules can change of a card: its list, labels, members, completion
\* flag, and the numbers of its comments and checklists
cardView(board, id) ==
    LET card == cardById(board, id)
    IN  [listId |-> listIdOf(board, id),
         labels |-> { card.labels[k] : k \in DOMAIN card.labels },
         members |-> { card.members[k] : k \in DOMAIN card.members },
         completed |-> card.dueDate.completed,
         comments |-> Len(card.comments),
         checklists |-> Len(card.checklists)]

\* the effect of one rule action on a card, as the specification states it
actionEffect(action, view, listIds) ==
    CASE action.type = "move-to-list" ->
            IF action.listId \in listIds THEN [view EXCEPT !.listId = action.listId] ELSE view
      [] action.type = "set-due-date-complete" -> [view EXCEPT !.completed = action.completed]
      [] action.type = "add-label" -> [view EXCEPT !.labels = @ \cup {action.labelId}]
      [] action.type = "add-member" -> [view EXCEPT !.members = @ \cup {action.memberId}]
      [] action.type = "add-checklist" -> [view EXCEPT !.checklists = @ + 1]
      [] action.type = "post-comment" -> [view EXCEPT !.comments = @ + 1]

\* same variant and same id
sameTrigger(a, b) ==
    /\ a.type = b.type
    /\ a.type = "card-move" => a.toListId = b.toListId
    /\ a.type = "label-add" => a.labelId = b.labelId

RECURSIVE afterRules(_, _, _, _)
afterRules(rules, trigger, view, listIds) ==
    IF rules = <<>> THEN view
    ELSE afterRules(Tail(rules), trigger,
                    IF sameTrigger(Head(rules).trigger, trigger)
                    THEN actionEffect(Head(rules).action, view, listIds)
                    ELSE view,
                    listIds)

RECURSIVE afterTriggers(_, _, _, _)
afterTriggers(triggers, rules, view, listIds) ==
    IF triggers = <<>> THEN view
    ELSE afterTriggers(Tail(triggers), rules,
                       afterRules(rules, Head(triggers), view, listIds), listIds)

\* the triggers of a non-automated call and the card as the call itself leaves it
userCall(op, board) ==
    LET old == cardView(board, op.cardId)
        oldCard == cardById(board, op.cardId)
    IN  IF op.op = "moveCard"
        THEN [triggers |-> <<[type |-> "card-move", toListId |-> At(board, op.args[3]).id]>>,
              view |-> [old EXCEPT !.listId = At(board, op.args[3]).id]]
        ELSE IF "labels" \notin DOMAIN op.args[4] THEN [triggers |-> <<>>, view |-> old]
        ELSE LET labels == op.args[4].labels
                 added == SelectSeq(labels, LAMBDA l : ~includes(oldCard.labels, l))
             IN  [triggers |-> [k \in DOMAIN added |-> [type |-> "label-add", labelId |-> added[k]]],
                  view |-> [old EXCEPT !.labels = { labels[k] : k \in DOMAIN labels }]]

isUserCall(op, board) ==
    \/ realMove(op, board) /\ ~op.args[5]
    \/ op.op = "updateCard" /\ ~op.args[3]

\* C25: after a non-automated move or label update, the card is what applying
\* once, in rule order, the action of exactly those rules whose trigger has
\* the variant and the id of each emitted trigger makes of it (a rule that
\* moved the card does not hide it from the rules after it), and no other
\* card is changed.
C25_RulesApplied ==
    [][isUserCall(lastOp', boardData) =>
          LET call == userCall(lastOp', boardData)
              listIds == { boardData[l].id : l \in DOMAIN boardData }
          IN  /\ cardView(boardData', lastOp'.cardId)
                    = afterTriggers(call.triggers, automations.rules, call.view, listIds)
              /\ \A id \in cardIds(boardData) \ {lastOp'.cardId} :
                    cardById(boardData', id) = cardById(boardData, id)]_vars

\* a dropped card was moved on by the first matching rule and labelled by the
\* second one in the list the first rule took it to
C25_Witness ==
    /\ realMove(lastOp, boardData)
    /\ ~lastOp.args[5]
    /\ automations = chainAutomations
    /\ lastOp.args[3] = 1
    /\ listIdOf(boardData, lastOp.cardId) = list3
    /\ includes(cardById(boardData, lastOp.cardId).labels, label2)
    /\ Len(SelectSeq(trace, LAMBDA e : e.ev = "match")) = 2

\* the LabelAdded triggers a call emitted itself
emittedTriggers(t) == Len(SelectSeq(t, LAMBDA e : e.ev = "trigger" /\ e.depth = 0))

\* the label-add passes a call started itself
startedPasses(t) == Len(SelectSeq(t, LAMBDA e : e.ev = "pass" /\ e.depth = 1))

\* C26: an updateCard emits one LabelAdded trigger for each label id of the
\* new labels that the card did not have, and none for a removed or kept
\* label; it emits none when it is automated or carries no labels.
C26_TriggerPerAddedLabel ==
    [][lastOp'.op = "updateCard" =>
          LET oldCard == cardById(boardData, lastOp'.cardId)
              updates == lastOp'.args[4]
              new == IF "labels" \in DOMAIN updates
                     THEN { updates.labels[k] : k \in DOMAIN updates.labels }
                     ELSE {}
              old == { oldCard.labels[k] : k \in DOMAIN oldCard.labels }
              expected == IF lastOp'.args[3] \/ "labels" \notin DOMAIN updates
                          THEN 0
                          ELSE Cardinality(new \ old)
          IN  /\ emittedTriggers(trace') = expected
              /\ startedPasses(trace') = expected]_vars

\* an update that kept a label, dropped none and added two emitted two triggers
C26_Witness ==
    /\ lastOp.op = "updateCard"
    /\ ~lastOp.args[3]
    /\ "labels" \in DOMAIN lastOp.args[4]
    /\ Len(lastOp.args[4].labels) = 3
    /\ emittedTriggers(trace) = 2

\* the rules of the configuration that wait for a move to the list
rulesFor(listId) ==
    SelectSeq(automations.rules,
              LAMBDA r : r.trigger.type = "card-move" /\ r.trigger.toListId = listId)

eventsAt(t, ev, depth) == Len(SelectSeq(t, LAMBDA e : e.ev = ev /\ e.depth = depth))

\* C29: a non-automated move that is not a no-op emits one CardMoved trigger
\* carrying the destination list's id, between lists and inside one list
\* alike: every rule for a move to that list is applied to the card once,
\* and a move inside a list adds no activity entry and no notification.
C29_EveryMoveEmits ==
    [][realMove(lastOp', boardData) /\ ~lastOp'.args[5] =>
          LET dest == At(boardData, lastOp'.args[3])
              sameList == lastOp'.args[1] = lastOp'.args[3]
              old == cardView(boardData, lastOp'.cardId)
              listIds == { boardData[l].id : l \in DOMAIN boardData }
          IN  /\ eventsAt(trace', "trigger", 0) = 1
              /\ eventsAt(trace', "pass", 1) = 1
              /\ eventsAt(trace', "match", 1) = Len(rulesFor(dest.id))
              /\ cardView(boardData', lastOp'.cardId)
                    = afterRules(rulesFor(dest.id),
                                 [type |-> "card-move", toListId |-> dest.id],
                                 [old EXCEPT !.listId = dest.id], listIds)
              /\ sameList =>
                    /\ eventsAt(trace', "activity", 0) = 0
                    /\ eventsAt(trace', "notify", 0) = 0
                    /\ notifications' = notifications
                    /\ Len(cardById(boardData', lastOp'.cardId).activity)
                          = Len(cardById(boardData, lastOp'.cardId).activity)]_vars

\* a card reordered inside the list whose rule marks cards complete had that
\* rule applied to it
C29_Witness ==
    /\ realMove(lastOp, boardData)
    /\ ~lastOp.args[5]
    /\ lastOp.args[1] = lastOp.args[3]
    /\ At(boardData, lastOp.args[3]).id = list3
    /\ eventsAt(trace, "match", 1) = 1
    /\ cardById(boardData, lastOp.cardId).dueDate.completed
    /\ steps = 2

-----------------------------------------------------------------------------
(* Claims checked under SpecShortIds *)

boardShortIds(board) == { c.cardShortId : c \in allCards(board) }

\* C27: on the board rehydrated from a document in which some cards have a
\* shortId and some have none, no two cards share a shortId and the restored
\* counter is at least every shortId on the board.
C27_RehydratedShortIds ==
    lastOp.op = "init" =>
        /\ Cardinality(boardShortIds(boardData)) = totalCards(boardData)
        /\ \A n \in boardShortIds(boardData) : cardCounter >= n

-----------------------------------------------------------------------------
(* Claims checked under SpecCss *)

\* C28: when the customizer is closed with Cancel or the close button, the
\* custom CSS in effect and the custom CSS persisted are what they were when
\* the customizer was opened.
C28_CancelRestores ==
    [][lastOp'.op = "handleClose" => customCss' = cssAtOpen /\ cssStore' = cssAtOpen]_vars

\* "Save and Close" keeps the edits made since the customizer was opened
C28_SaveKeeps ==
    [][lastOp'.op = "handleSave" => customCss' = customizer.localCss /\ cssStore' = customCss']_vars

-----------------------------------------------------------------------------
(* Claims checked under SpecUploads *)

attachmentIds(attachments) == { attachments[k].id : k \in DOMAIN attachments }

\* the attachments of the card, or of the checklist item, an upload adds to
uploadTarget(card, upload) ==
    IF upload.kind = "card" THEN card.attachments
    ELSE card.checklists[upload.k].items[upload.j].attachments

\* what was there when the upload was started
uploadBefore(upload) ==
    IF upload.kind = "card" THEN upload.attachments
    ELSE upload.checklists[upload.k].items[upload.j].attachments

\* both are finished, and the second was started before the first finished
overlapped(first, second) ==
    /\ first.ended # 0 /\ second.ended # 0
    /\ first.cardId = second.cardId
    /\ second.began < first.ended

\* C30: when two uploads for one card were started before either finished
\* and both have finished, the card holds the attachment of each of them and
\* every attachment that was there before.
C30_NoLostUpload ==
    \A a, b \in DOMAIN uploads :
        a < b /\ overlapped(uploads[a], uploads[b]) =>
            LET card == cardById(boardData, uploads[a].cardId)
            IN  \A u \in {uploads[a], uploads[b]} :
                    /\ u.attachmentId \in attachmentIds(uploadTarget(card, u))
                    /\ attachmentIds(uploadBefore(u)) \subseteq attachmentIds(uploadTarget(card, u))

====
